---- MODULE Spec2Model ----
(***************************************************************************)
(* A model of the map editors of claude-artifact-runner:                   *)
(*   - the rectangular editor (MapEditor.tsx) with its brush, fill,        *)
(*     generation, undo/redo history, throttle and deferred timers;        *)
(*   - the pure grid functions of utils/mapUtils.ts;                       *)
(*   - the hexagonal editor (HexMapEditor) with its JSON export/import.    *)
(*                                                                         *)
(* A rectangular grid is a sequence of rows, a row a sequence of cells     *)
(* [type, height].  Coordinates handed to the operations are 0-based as in *)
(* the source; cell (row, col) is grid[row + 1][col + 1].                  *)
(*                                                                         *)
(* Maps of up to MaxExact rows/columns are held cell for cell.  A larger   *)
(* map (the 10,000 and 40,000 cell thresholds need them) is held by its    *)
(* top-left MaxWin x MaxWin corner: updateCells and fillMap compute every  *)
(* cell from that cell alone, so the corner of the result is the result on *)
(* the corner.  mapSize always carries the real dimensions.                *)
(***************************************************************************)
EXTENDS Integers, Sequences, FiniteSets, TLC

\* ------------------------------------------------------------------ bounds
MaxExact == 5
MaxWin == 2
MaxEdits == 2
MaxStrokes == 2
MaxDeepEdits == 52
MaxHexEdits == 2
MaxRadius == 2
MaxCubeEdits == 1
MaxGridEdits == 2
MaxThrottleEdits == 3
MaxStoreEdits == 3
MaxSoftEdits == 2
MaxShapeEdits == 2
MaxTerrainRuns == 2
MaxMouseEdits == 2
Denominator == 4
MaxScreen == 4

\* --------------------------------------------------------- program constants
MAX_UNDO_STATES_NORMAL == 50
MAX_UNDO_STATES_LARGE == 20
MAX_UNDO_STATES_VERY_LARGE == 10
LargeMapCells == 10000
VeryLargeMapCells == 40000
MaxHexRadius == 15
RiverSourceSamples == 100

\* ------------------------------------------------------------------ helpers
Min(a, b) == IF a < b THEN a ELSE b

Max(a, b) == IF a > b THEN a ELSE b

Front(s) == SubSeq(s, 1, Len(s) - 1)

Last(s) == s[Len(s)]

\* Array.prototype.slice(from) for 0 <= from <= length
SliceFrom(s, from) == SubSeq(s, from + 1, Len(s))

NoTimer == [kind |-> "none"]

\* number of rows (columns) of a map dimension n that the model holds
Tracked(n) == IF n <= MaxExact THEN n ELSE MaxWin

TotalCells(size) == size.width * size.height

\* -------------------------------------------------- utils/mapUtils.ts (pure)
DefaultCell == [type |-> "field", height |-> 1]

createEmptyMap(size) ==
  [r \in 1..Tracked(size.height) |-> [c \in 1..Tracked(size.width) |-> DefaultCell]]

\* a brush whose circle test excludes the cells at exactly the radius
DistanceReaches(r, c, radius) == r * r + c * c >= radius * radius

\* Math.sqrt(r*r + c*c) > radius, on integers r, c, radius >= 0
DistanceExceeds(r, c, radius) == r * r + c * c > radius * radius

\* a brush that paints the whole bounding square
BrushHitsSquare(row, col, size, brushSize, tr, tc) ==
  LET radius == brushSize \div 2
  IN  /\ (tr - row) \in (-radius)..radius
      /\ (tc - col) \in (-radius)..radius
      /\ ~(tr < 0 \/ tr >= size.height \/ tc < 0 \/ tc >= size.width)

\* the loop body of updateCells reaches target cell (tr, tc): it lies in the
\* square -radius..radius around (row, col), inside the map, and inside the
\* circle when brushSize > 1
BrushHits(row, col, size, brushSize, tr, tc) ==
  LET radius == brushSize \div 2
      r == tr - row
      c == tc - col
  IN  /\ r \in (-radius)..radius
      /\ c \in (-radius)..radius
      /\ ~(tr < 0 \/ tr >= size.height \/ tc < 0 \/ tc >= size.width)
      /\ ~(brushSize > 1 /\ DistanceExceeds(r, c, radius))

PaintCell(cell, selectedTool, selectedHeight) ==
  IF selectedTool = "height"
    THEN [cell EXCEPT !.height = selectedHeight]
    ELSE [cell EXCEPT !.type = selectedTool]

updateCells(grid, row, col, size, selectedTool, selectedHeight, brushSize) ==
  [i \in DOMAIN grid |->
    [j \in DOMAIN grid[i] |->
      IF BrushHits(row, col, size, brushSize, i - 1, j - 1)
        THEN PaintCell(grid[i][j], selectedTool, selectedHeight)
        ELSE grid[i][j]]]

\* a fill that writes the selected height with every tool
fillMapWritesHeight(grid, size, selectedTool, selectedHeight) ==
  [i \in DOMAIN grid |->
    [j \in DOMAIN grid[i] |->
      IF selectedTool = "height"
        THEN [grid[i][j] EXCEPT !.height = selectedHeight]
        ELSE [type |-> selectedTool, height |-> selectedHeight]]]

fillMap(grid, size, selectedTool, selectedHeight) ==
  [i \in DOMAIN grid |->
    [j \in DOMAIN grid[i] |->
      IF i - 1 < size.height /\ j - 1 < size.width
        THEN PaintCell(grid[i][j], selectedTool, selectedHeight)
        ELSE grid[i][j]]]


\* ------------------------------------------------------------------- state
VARIABLES
  step,        \* MapEditor: 'size' | 'edit'
  mapSize,     \* MapEditor: [width, height]
  mapData,     \* MapEditor: the current grid (<<>> before a map exists)
  undoStack,   \* MapEditor: sequence of grids, newest last
  redoStack,   \* MapEditor: sequence of grids, newest last
  keyHandler,  \* the undoStack/redoStack/mapData the installed handleKeyDown closes over
  isDrawing,   \* MapEditor: mouse button held on the map
  isLoading,   \* MapEditor: the full-screen loading overlay is shown
  inWindow,    \* Date.now() - lastDrawTime.current < throttleInterval
  drawTimer,   \* drawThrottleTimeout: NoTimer or the pending updateCell closure
  loadTimer,   \* the pending 100 ms setTimeout of createMap / fillAll / randomFill
  lastOp,      \* the last step, if it touched the history: a committed edit with its
               \* arguments, "undo", "redo", "createMap"; "other" for every other handler
  edits,       \* number of edit requests accepted so far (bounds the exploration)
  rt,          \* history variable: progress of an "N edits, N undos, N redos" run
  strokes,     \* history variable: the brush strokes committed since the map was created
  latest       \* history variable: the newest brush request the throttle has not applied

rectVars == <<step, mapSize, mapData, undoStack, redoStack, keyHandler, isDrawing,
              isLoading, inWindow, drawTimer, loadTimer, lastOp, edits>>

\* ------------------------------------------------ MapEditor.tsx: the history
isVeryLargeMap(size) == TotalCells(size) > VeryLargeMapCells

isLargeMap(size) == TotalCells(size) > LargeMapCells

maxUndoStates(size) ==
  IF isVeryLargeMap(size) THEN MAX_UNDO_STATES_VERY_LARGE
  ELSE IF isLargeMap(size) THEN MAX_UNDO_STATES_LARGE
  ELSE MAX_UNDO_STATES_NORMAL

\* a truncation that keeps the oldest entries and drops the newest
newUndoStackKeepsOldest(size, undo, map) ==
  LET pushed == Append(undo, map)
  IN  IF Len(pushed) > maxUndoStates(size)
        THEN SubSeq(pushed, 1, maxUndoStates(size))
        ELSE pushed

\* newUndoStack of saveState, from the undoStack and mapData its closure holds.
\* Both branches (reference for very large maps, row copy otherwise) push a
\* grid equal to mapData.
newUndoStack(size, undo, map) ==
  LET pushed == Append(undo, map)
  IN  IF Len(pushed) > maxUndoStates(size)
        THEN SliceFrom(pushed, Len(pushed) - maxUndoStates(size))
        ELSE pushed

\* a saveState that leaves the redo stack alone
saveStateKeepsRedo(size, undo, map, newMapData) ==
  /\ undoStack' = newUndoStack(size, undo, map)
  /\ redoStack' = redoStack
  /\ mapData' = newMapData

\* saveState(newMapData) run in a closure holding (size, undo, map)
saveState(size, undo, map, newMapData) ==
  /\ undoStack' = newUndoStack(size, undo, map)
  /\ redoStack' = << >>
  /\ mapData' = newMapData

\* an undo that puts the restored grid, not the current one, on the redo stack
undoPushesRestored(cl, cur) ==
  IF Len(cl.undoStack) = 0
    THEN cur
    ELSE [undoStack |-> SubSeq(cl.undoStack, 1, Len(cl.undoStack) - 1),
          redoStack |-> Append(cl.redoStack, cl.undoStack[Len(cl.undoStack)]),
          mapData |-> cl.undoStack[Len(cl.undoStack)]]

\* what undo() sets when run in a render holding cl = [undoStack, redoStack,
\* mapData], as the history [undoStack, redoStack, mapData] that results from
\* the current history cur (a state it does not set keeps its current value)
undo(cl, cur) ==
  IF Len(cl.undoStack) = 0
    THEN cur
    ELSE [undoStack |-> SubSeq(cl.undoStack, 1, Len(cl.undoStack) - 1),
          redoStack |-> Append(cl.redoStack, cl.mapData),
          mapData |-> cl.undoStack[Len(cl.undoStack)]]

\* a redo that leaves the entry it restores on the redo stack
redoKeepsEntry(cl, cur) ==
  IF Len(cl.redoStack) = 0
    THEN cur
    ELSE [undoStack |-> Append(cl.undoStack, cl.mapData),
          redoStack |-> cl.redoStack,
          mapData |-> cl.redoStack[Len(cl.redoStack)]]

\* a redo that takes the oldest redo entry
redoTakesOldest(cl, cur) ==
  IF Len(cl.redoStack) = 0
    THEN cur
    ELSE [undoStack |-> Append(cl.undoStack, cl.mapData),
          redoStack |-> SubSeq(cl.redoStack, 2, Len(cl.redoStack)),
          mapData |-> cl.redoStack[1]]

\* what redo() sets when run in a render holding cl
redo(cl, cur) ==
  IF Len(cl.redoStack) = 0
    THEN cur
    ELSE [undoStack |-> Append(cl.undoStack, cl.mapData),
          redoStack |-> SubSeq(cl.redoStack, 1, Len(cl.redoStack) - 1),
          mapData |-> cl.redoStack[Len(cl.redoStack)]]

\* the history of the current render
History == [undoStack |-> undoStack, redoStack |-> redoStack, mapData |-> mapData]

SetHistory(h) ==
  /\ undoStack' = h.undoStack
  /\ redoStack' = h.redoStack
  /\ mapData' = h.mapData

Op(name) == [op |-> name, row |-> -1, col |-> -1, tool |-> "", height |-> -1, brush |-> -1]

BrushOp(name, row, col, tool, height, brush) ==
  [op |-> name, row |-> row, col |-> col, tool |-> tool, height |-> height, brush |-> brush]

\* the effect of line 874 runs after a render in which step or mapSize changed
\* and installs a handleKeyDown that closes over that render's undo and redo
InstallKeyHandler(undo_, redo_, map) ==
  keyHandler' = [undoStack |-> undo_, redoStack |-> redo_, mapData |-> map]


\* --------------------------------------------- MapEditor.tsx: the handlers
\* selectedTool, selectedHeight and brushSize are arguments of the events: the
\* selectors of the toolbar can change them between any two events, and a
\* timer keeps the values of the render that created it.

\* generateRandomTerrain(mapSize, generationParams), seen from the editor: some
\* grid of the map's shape.  The editor only stores the result.
GenCells == {[type |-> "water", height |-> 0], [type |-> "forest", height |-> 3]}

GenOutputs(size) ==
  {[r \in 1..Tracked(size.height) |-> [c \in 1..Tracked(size.width) |-> cell]] :
     cell \in GenCells}

\* updateCell(row, col) of the current render
updateCell(row, col, tool, height, brush) ==
  saveState(mapSize, undoStack, mapData,
            updateCells(mapData, row, col, mapSize, tool, height, brush))

\* throttledUpdateCell(row, col)
throttledUpdateCell(row, col, tool, height, brush) ==
  IF isVeryLargeMap(mapSize)
    THEN IF ~inWindow
           THEN /\ updateCell(row, col, tool, height, brush)
                /\ inWindow' = TRUE
                /\ drawTimer' = NoTimer
                /\ lastOp' = BrushOp("brush", row, col, tool, height, brush)
                /\ edits' = edits + 1
           ELSE IF drawTimer = NoTimer
             THEN /\ drawTimer' = [kind |-> "draw", row |-> row, col |-> col,
                                   tool |-> tool, height |-> height, brush |-> brush,
                                   mapSize |-> mapSize, mapData |-> mapData,
                                   undoStack |-> undoStack]
                  /\ lastOp' = Op("other")
                  /\ edits' = edits + 1
                  /\ UNCHANGED <<mapData, undoStack, redoStack, inWindow>>
             ELSE /\ lastOp' = Op("other")
                  /\ UNCHANGED <<mapData, undoStack, redoStack, inWindow, drawTimer, edits>>
    ELSE /\ updateCell(row, col, tool, height, brush)
         /\ lastOp' = BrushOp("brush", row, col, tool, height, brush)
         /\ edits' = edits + 1
         /\ UNCHANGED <<inWindow, drawTimer>>

\* the toolbar and the map receive no mouse event under the loading overlay
MouseReaches == step = "edit" /\ ~isLoading /\ Len(mapData) > 0

SetMapSize(size) ==
  /\ step = "size" /\ ~isLoading
  /\ mapSize' = size
  /\ InstallKeyHandler(undoStack, redoStack, mapData)
  /\ lastOp' = Op("other")
  /\ UNCHANGED <<step, mapData, undoStack, redoStack, isDrawing, isLoading, inWindow,
                 drawTimer, loadTimer, edits>>

CreateMap ==
  /\ step = "size" /\ ~isLoading
  /\ IF TotalCells(mapSize) > LargeMapCells
       THEN /\ isLoading' = TRUE
            /\ loadTimer' = [kind |-> "create", mapSize |-> mapSize]
            /\ lastOp' = Op("other")
            /\ UNCHANGED <<step, mapData, keyHandler>>
       ELSE /\ mapData' = createEmptyMap(mapSize)
            /\ step' = "edit"
            /\ InstallKeyHandler(undoStack, redoStack, createEmptyMap(mapSize))
            /\ lastOp' = Op("createMap")
            /\ UNCHANGED <<isLoading, loadTimer>>
  /\ UNCHANGED <<mapSize, undoStack, redoStack, isDrawing, inWindow, drawTimer, edits>>

ChangeMapSize ==
  /\ step = "edit" /\ ~isLoading
  /\ step' = "size"
  /\ mapData' = << >>
  /\ undoStack' = << >>
  /\ redoStack' = << >>
  /\ InstallKeyHandler(<< >>, << >>, << >>)
  /\ lastOp' = Op("other")
  /\ UNCHANGED <<mapSize, isDrawing, isLoading, inWindow, drawTimer, loadTimer, edits>>

MouseDown(row, col, tool, height, brush) ==
  /\ MouseReaches
  /\ isDrawing' = TRUE
  /\ throttledUpdateCell(row, col, tool, height, brush)
  /\ UNCHANGED <<step, mapSize, keyHandler, isLoading, loadTimer>>

MouseOver(row, col, tool, height, brush) ==
  /\ MouseReaches
  /\ IF isDrawing
       THEN throttledUpdateCell(row, col, tool, height, brush)
       ELSE /\ lastOp' = Op("other")
            /\ UNCHANGED <<mapData, undoStack, redoStack, inWindow, drawTimer, edits>>
  /\ UNCHANGED <<step, mapSize, keyHandler, isDrawing, isLoading, loadTimer>>

MouseUp ==
  /\ MouseReaches
  /\ isDrawing' = FALSE
  /\ lastOp' = Op("other")
  /\ UNCHANGED <<step, mapSize, mapData, undoStack, redoStack, keyHandler, isLoading,
                 inWindow, drawTimer, loadTimer, edits>>

FillAll(tool, height) ==
  /\ MouseReaches
  /\ IF TotalCells(mapSize) > LargeMapCells
       THEN /\ isLoading' = TRUE
            /\ loadTimer' = [kind |-> "fill", tool |-> tool, height |-> height,
                             mapSize |-> mapSize, mapData |-> mapData,
                             undoStack |-> undoStack]
            /\ lastOp' = Op("other")
            /\ UNCHANGED <<mapData, undoStack, redoStack>>
       ELSE /\ saveState(mapSize, undoStack, mapData,
                         fillMap(mapData, mapSize, tool, height))
            /\ lastOp' = BrushOp("fill", -1, -1, tool, height, -1)
            /\ UNCHANGED <<isLoading, loadTimer>>
  /\ edits' = edits + 1
  /\ UNCHANGED <<step, mapSize, keyHandler, isDrawing, inWindow, drawTimer>>

RandomFill ==
  /\ MouseReaches
  /\ IF TotalCells(mapSize) > LargeMapCells
       THEN /\ isLoading' = TRUE
            /\ loadTimer' = [kind |-> "gen", mapSize |-> mapSize, mapData |-> mapData,
                             undoStack |-> undoStack]
            /\ lastOp' = Op("other")
            /\ UNCHANGED <<mapData, undoStack, redoStack>>
       ELSE /\ \E g \in GenOutputs(mapSize) : saveState(mapSize, undoStack, mapData, g)
            /\ lastOp' = Op("gen")
            /\ UNCHANGED <<isLoading, loadTimer>>
  /\ edits' = edits + 1
  /\ UNCHANGED <<step, mapSize, keyHandler, isDrawing, inWindow, drawTimer>>

Undo ==
  /\ MouseReaches
  /\ SetHistory(undo(History, History))
  /\ lastOp' = Op("undo")
  /\ UNCHANGED <<step, mapSize, keyHandler, isDrawing, isLoading, inWindow, drawTimer,
                 loadTimer, edits>>

Redo ==
  /\ MouseReaches
  /\ SetHistory(redo(History, History))
  /\ lastOp' = Op("redo")
  /\ UNCHANGED <<step, mapSize, keyHandler, isDrawing, isLoading, inWindow, drawTimer,
                 loadTimer, edits>>

\* handleKeyDown with e.ctrlKey && e.key === 'z': the undo of the render that
\* installed the handler
CtrlZ ==
  /\ SetHistory(undo(keyHandler, History))
  /\ lastOp' = Op("other")
  /\ UNCHANGED <<step, mapSize, keyHandler, isDrawing, isLoading, inWindow, drawTimer,
                 loadTimer, edits>>

\* handleKeyDown with e.ctrlKey && e.key === 'y'
CtrlY ==
  /\ SetHistory(redo(keyHandler, History))
  /\ lastOp' = Op("other")
  /\ UNCHANGED <<step, mapSize, keyHandler, isDrawing, isLoading, inWindow, drawTimer,
                 loadTimer, edits>>

\* 50 ms pass after lastDrawTime.current without the timer callback having run
WindowElapse ==
  /\ inWindow
  /\ inWindow' = FALSE
  /\ lastOp' = Op("other")
  /\ UNCHANGED <<step, mapSize, mapData, undoStack, redoStack, keyHandler, isDrawing,
                 isLoading, drawTimer, loadTimer, edits>>

\* the callback of drawThrottleTimeout: updateCell of the render that set it
DrawTimerFire ==
  /\ drawTimer # NoTimer
  /\ saveState(drawTimer.mapSize, drawTimer.undoStack, drawTimer.mapData,
               updateCells(drawTimer.mapData, drawTimer.row, drawTimer.col,
                           drawTimer.mapSize, drawTimer.tool, drawTimer.height,
                           drawTimer.brush))
  /\ inWindow' = TRUE
  /\ drawTimer' = NoTimer
  /\ lastOp' = BrushOp("brushTimer", drawTimer.row, drawTimer.col, drawTimer.tool,
                       drawTimer.height, drawTimer.brush)
  /\ UNCHANGED <<step, mapSize, keyHandler, isDrawing, isLoading, loadTimer, edits>>

\* the callback of the 100 ms timer of createMap, fillAll or randomFill.  A
\* throttle timer is always set earlier and for at most 50 ms, so it runs first.
LoadTimerFire ==
  /\ loadTimer # NoTimer
  /\ drawTimer = NoTimer
  /\ IF loadTimer.kind = "create"
       THEN /\ mapData' = createEmptyMap(loadTimer.mapSize)
            /\ step' = "edit"
            /\ InstallKeyHandler(undoStack, redoStack, createEmptyMap(loadTimer.mapSize))
            /\ lastOp' = Op("createMap")
            /\ UNCHANGED <<undoStack, redoStack>>
       ELSE /\ IF loadTimer.kind = "fill"
                 THEN /\ saveState(loadTimer.mapSize, loadTimer.undoStack, loadTimer.mapData,
                                   fillMap(loadTimer.mapData, loadTimer.mapSize,
                                           loadTimer.tool, loadTimer.height))
                      /\ lastOp' = BrushOp("fillTimer", -1, -1, loadTimer.tool,
                                           loadTimer.height, -1)
                 ELSE /\ \E g \in GenOutputs(loadTimer.mapSize) :
                           saveState(loadTimer.mapSize, loadTimer.undoStack,
                                     loadTimer.mapData, g)
                      /\ lastOp' = Op("genTimer")
            /\ UNCHANGED <<step, keyHandler>>
  /\ isLoading' = FALSE
  /\ loadTimer' = NoTimer
  /\ UNCHANGED <<mapSize, isDrawing, inWindow, drawTimer, edits>>


\* ------------------------------------------------------ history variables
CommitOps == {"brush", "brushTimer", "fill", "fillTimer", "gen", "genTimer"}

RtNone == [phase |-> "none", n |-> 0, k |-> 0, first |-> << >>, last |-> << >>,
           undoAt |-> << >>]

\* rt follows a run "map created with an empty history and no timer pending,
\* n committed edits, k undos, then k redos" (phases ops, undos, redos) and
\* the branch "edits, undos, one more committed edit, redo" (branched,
\* branchedRedo); first is the grid at the start, last and undoAt the grid
\* and undo stack after the newest committed edit.
RtNext ==
  LET op == lastOp'.op
      same == <<mapData', undoStack', redoStack'>> = <<mapData, undoStack, redoStack>>
  IN  IF op = "createMap"
        THEN IF undoStack' = << >> /\ redoStack' = << >>
                  /\ drawTimer' = NoTimer /\ loadTimer' = NoTimer
               THEN [phase |-> "ops", n |-> 0, k |-> 0, first |-> mapData',
                     last |-> mapData', undoAt |-> << >>]
               ELSE RtNone
      ELSE IF op \in CommitOps
        THEN IF rt.phase = "ops"
               THEN [rt EXCEPT !.n = rt.n + 1, !.last = mapData', !.undoAt = undoStack']
             ELSE IF rt.phase = "undos"
               THEN [rt EXCEPT !.phase = "branched", !.last = mapData',
                               !.undoAt = undoStack']
             ELSE RtNone
      ELSE IF op = "undo"
        THEN IF rt.phase = "ops" /\ rt.n > 0
               THEN [rt EXCEPT !.phase = "undos", !.k = 1]
             ELSE IF rt.phase = "undos" /\ rt.k < rt.n
               THEN [rt EXCEPT !.k = rt.k + 1]
             ELSE RtNone
      ELSE IF op = "redo"
        THEN IF rt.phase = "undos" /\ rt.k = rt.n
               THEN [rt EXCEPT !.phase = "redos", !.k = 1]
             ELSE IF rt.phase = "redos" /\ rt.k < rt.n
               THEN [rt EXCEPT !.k = rt.k + 1]
             ELSE IF rt.phase = "branched"
               THEN [rt EXCEPT !.phase = "branchedRedo"]
             ELSE RtNone
      ELSE IF same
        THEN rt
      ELSE RtNone

\* --------------------------------------------------------- specifications
DEFAULT_MAP_SIZE == [width |-> 32, height |-> 32]

LargeSize == [width |-> 101, height |-> 100]

VeryLargeSize == [width |-> 201, height |-> 200]

Sizes == {DEFAULT_MAP_SIZE, LargeSize, VeryLargeSize}

Tools == {"water", "height"}

Heights == {0}

Brushes == {1, 3}

\* the cells a mouse event names: the cells of the map that the model holds
PosMax(n) == Tracked(n) - 1

Positions(size) == (0..PosMax(size.height)) \X (0..PosMax(size.width))

NoRequest == Op("none")

InitRect(size) ==
  /\ step = "size"
  /\ mapSize = size
  /\ mapData = << >>
  /\ undoStack = << >>
  /\ redoStack = << >>
  /\ keyHandler = [undoStack |-> << >>, redoStack |-> << >>, mapData |-> << >>]
  /\ isDrawing = FALSE
  /\ isLoading = FALSE
  /\ inWindow = FALSE
  /\ drawTimer = NoTimer
  /\ loadTimer = NoTimer
  /\ lastOp = Op("init")
  /\ edits = 0
  /\ rt = RtNone
  /\ strokes = << >>
  /\ latest = NoRequest

\* --------------------------------------- HexMapEditor (styles/brushStyles.css)
VARIABLES
  showSizeInput,  \* HexMapEditor: the size form is shown instead of the editor
  mapRadius,      \* HexMapEditor: radius of the hexagonal map
  hexMap,         \* HexMapEditor: sequence of [q, r, s, terrainType, unit]
  hexCount,       \* HexMapEditor: counter of the non-empty hexes
  deletedHexes,   \* HexMapEditor: hexes saved by manage / delete
  resizeTimer,    \* the setTimeout(0) of resizeMap with what its closure holds
  hexDoc,         \* the document the last exportToJSON produced
  exported,       \* history: mapRadius and hexMap when hexDoc was produced
  hexOp,          \* history: the last hex handler that ran
  hexEdits        \* history: number of hex clicks so far

hexVars == <<showSizeInput, mapRadius, hexMap, hexCount, deletedHexes, resizeTimer,
             hexDoc, exported, hexOp, hexEdits>>

InitialMapRadius == 5

\* ids of terrainTypes and unitTypes; "none" stands for an absent unit
terrainTypes == {"field", "hills", "forest", "swamp", "buildings", "water", "mountains", "empty"}

unitTypes == {"infantry", "sailor", "guerrilla", "cavalry", "cossack", "machinegun",
              "tachankagun", "sniper", "cannon", "howitzer", "armoredcar", "tank"}

NoUnit == "none"

\* kind: "ok" for a text JSON.parse accepts and whose hexes is an array,
\* "syntax" for a text it rejects, "noHexes" and "notArray" for a missing and
\* a non-array hexes; mapRadius 0 stands for a missing or zero mapRadius
NoDoc == [kind |-> "ok", hexes |-> << >>, mapRadius |-> 0]

\* the (q, r) pairs the loops "for q ... for r = r1..r2" visit for a radius
HexCoordSet(radius) ==
  {c \in ((-radius)..radius) \X ((-radius)..radius) :
     /\ c[2] >= Max(-radius, -c[1] - radius)
     /\ c[2] <= Min(radius, -c[1] + radius)}

\* the coordinates the inner loop pushes for one q, r ascending
HexColumn(q, radius) ==
  LET r1 == Max(-radius, -q - radius)
      r2 == Min(radius, -q + radius)
  IN  [k \in 1..(r2 - r1 + 1) |-> <<q, r1 + k - 1>>]

RECURSIVE HexCoordsFrom(_, _)
HexCoordsFrom(q, radius) ==
  IF q > radius THEN << >> ELSE HexColumn(q, radius) \o HexCoordsFrom(q + 1, radius)

\* the coordinates in the order the loops push them: q ascending, then r
HexCoords(radius) == HexCoordsFrom(-radius, radius)

FieldHex(c) ==
  [q |-> c[1], r |-> c[2], s |-> -c[1] - c[2], terrainType |-> "field", unit |-> NoUnit]

SameHex(h, q, r, s) == h.q = q /\ h.r = r /\ h.s = s

\* hexes.filter(hex => hex.terrainType !== 'empty').length
VisibleCount(hexes) == Cardinality({i \in DOMAIN hexes : hexes[i].terrainType # "empty"})

\* a lookup that does not find 'empty' hexes
LastIndexVisible(hexes, q, r, s) ==
  LET hits == {i \in DOMAIN hexes : SameHex(hexes[i], q, r, s) /\ hexes[i].terrainType # "empty"}
  IN  IF hits = {} THEN 0 ELSE CHOOSE i \in hits : \A j \in hits : j <= i

\* currentHexes[key] of resizeMap and hexIndex[key] of importFromJSON: the
\* last element with the coordinates, 0 if there is none
LastIndex(hexes, q, r, s) ==
  LET hits == {i \in DOMAIN hexes : SameHex(hexes[i], q, r, s)}
  IN  IF hits = {} THEN 0 ELSE CHOOSE i \in hits : \A j \in hits : j <= i

setMapRadius(radius) ==
  /\ showSizeInput
  /\ mapRadius' = radius
  /\ hexOp' = "other"
  /\ UNCHANGED <<showSizeInput, hexMap, hexCount, deletedHexes, resizeTimer, hexDoc,
                 exported, hexEdits>>

\* resizeMap(newRadius): caps the radius and defers the rebuild, which reads
\* the hexMap of the render that called it
resizeMap(newRadius) ==
  LET safeRadius == Min(newRadius, MaxHexRadius)
  IN  /\ resizeTimer = NoTimer
      /\ mapRadius' = IF safeRadius # newRadius THEN safeRadius ELSE mapRadius
      /\ resizeTimer' = [kind |-> "resize", newRadius |-> safeRadius, currentHexes |-> hexMap]
      /\ hexOp' = "other"
      /\ UNCHANGED <<showSizeInput, hexMap, hexCount, deletedHexes, hexDoc, exported, hexEdits>>

\* a commit that builds the new radius from field hexes alone
ResizeTimerFireRebuilds ==
  /\ resizeTimer # NoTimer
  /\ LET coords == HexCoords(resizeTimer.newRadius)
         newMap == [k \in DOMAIN coords |-> FieldHex(coords[k])]
     IN  /\ hexMap' = newMap
         /\ hexCount' = VisibleCount(newMap)
         /\ mapRadius' = resizeTimer.newRadius
  /\ resizeTimer' = NoTimer
  /\ hexOp' = "resize"
  /\ UNCHANGED <<showSizeInput, deletedHexes, hexDoc, exported, hexEdits>>

ResizeTimerFire ==
  /\ resizeTimer # NoTimer
  /\ LET cur == resizeTimer.currentHexes
         coords == HexCoords(resizeTimer.newRadius)
         newMap == [k \in DOMAIN coords |->
                      LET c == coords[k]
                          i == LastIndex(cur, c[1], c[2], -c[1] - c[2])
                      IN  IF i # 0 THEN cur[i] ELSE FieldHex(c)]
     IN  /\ hexMap' = newMap
         /\ hexCount' = VisibleCount(newMap)
         /\ mapRadius' = resizeTimer.newRadius
  /\ resizeTimer' = NoTimer
  /\ hexOp' = "resize"
  /\ UNCHANGED <<showSizeInput, deletedHexes, hexDoc, exported, hexEdits>>

initializeMap ==
  /\ showSizeInput
  /\ IF Len(hexMap) > 0
       THEN resizeMap(mapRadius)
       ELSE LET safeRadius == Min(mapRadius, MaxHexRadius)
                coords == HexCoords(safeRadius)
                newMap == [k \in DOMAIN coords |-> FieldHex(coords[k])]
            IN  /\ mapRadius' = safeRadius
                /\ hexMap' = newMap
                /\ hexCount' = Len(newMap)
                /\ showSizeInput' = FALSE
                /\ hexOp' = "init"
                /\ UNCHANGED <<deletedHexes, resizeTimer, hexDoc, exported, hexEdits>>

increaseRadius ==
  /\ ~showSizeInput
  /\ mapRadius < MaxHexRadius
  /\ resizeMap(mapRadius + 1)

decreaseRadius ==
  /\ ~showSizeInput
  /\ mapRadius > 1
  /\ resizeMap(mapRadius - 1)

\* handleHexClick(hex) on element i of the rendered hexMap, with the edit
\* mode, manage action, selected terrain and selected unit of that render
handleHexClick(i, editMode, manageAction, selectedTerrain, selectedUnit) ==
  LET hex == hexMap[i]
      hit(h) == SameHex(h, hex.q, hex.r, hex.s)
      paint == [k \in DOMAIN hexMap |->
                  IF hit(hexMap[k])
                    THEN [hexMap[k] EXCEPT !.terrainType = selectedTerrain]
                    ELSE hexMap[k]]
  IN  /\ ~showSizeInput
      /\ i \in DOMAIN hexMap
      /\ hexOp' = "click"
      /\ hexEdits' = hexEdits + 1
      /\ UNCHANGED <<showSizeInput, mapRadius, resizeTimer, hexDoc, exported>>
      /\ IF editMode = "terrain" THEN
           /\ hexMap' = paint
           /\ hexCount' = IF hex.terrainType = "empty" /\ selectedTerrain # "empty"
                            THEN hexCount + 1
                          ELSE IF hex.terrainType # "empty" /\ selectedTerrain = "empty"
                            THEN hexCount - 1
                          ELSE hexCount
           /\ UNCHANGED deletedHexes
         ELSE IF editMode = "units" THEN
           /\ hexMap' = IF hex.terrainType = "empty"
                          THEN hexMap
                          ELSE [k \in DOMAIN hexMap |->
                                  IF hit(hexMap[k])
                                    THEN [hexMap[k] EXCEPT !.unit = selectedUnit]
                                    ELSE hexMap[k]]
           /\ UNCHANGED <<hexCount, deletedHexes>>
         ELSE IF manageAction = "add" /\ hex.terrainType = "empty" THEN
           /\ hexMap' = paint
           /\ hexCount' = hexCount + 1
           /\ UNCHANGED deletedHexes
         ELSE IF manageAction = "delete" /\ hex.terrainType # "empty" THEN
           /\ hexMap' = [k \in DOMAIN hexMap |->
                           IF hit(hexMap[k])
                             THEN [hexMap[k] EXCEPT !.terrainType = "empty", !.unit = NoUnit]
                             ELSE hexMap[k]]
           /\ deletedHexes' = deletedHexes \o
                                SelectSeq(hexMap, LAMBDA h : hit(h))
           /\ hexCount' = hexCount - 1
         ELSE UNCHANGED <<hexMap, hexCount, deletedHexes>>

\* the document exportToJSON stringifies: every hex of hexMap as position,
\* terrainType and unit type, then an 'empty' entry for every coordinate of
\* the radius that hexMap lacks
ExportDoc(hexes, radius) ==
  LET cleanedMap == [k \in DOMAIN hexes |->
                       [position |-> <<hexes[k].q, hexes[k].r, hexes[k].s>>,
                        terrainType |-> hexes[k].terrainType,
                        unit |-> hexes[k].unit]]
      coords == HexCoords(radius)
      missing == SelectSeq(coords, LAMBDA c : LastIndex(hexes, c[1], c[2], -c[1] - c[2]) = 0)
      emptyCoordinates == [k \in DOMAIN missing |->
                             [position |-> <<missing[k][1], missing[k][2],
                                             -missing[k][1] - missing[k][2]>>,
                              terrainType |-> "empty",
                              unit |-> NoUnit]]
  IN  [kind |-> "ok", hexes |-> cleanedMap \o emptyCoordinates, mapRadius |-> radius]

exportToJSON ==
  /\ ~showSizeInput
  /\ hexDoc' = ExportDoc(hexMap, mapRadius)
  /\ exported' = [mapRadius |-> mapRadius, hexMap |-> hexMap]
  /\ hexOp' = "export"
  /\ UNCHANGED <<showSizeInput, mapRadius, hexMap, hexCount, deletedHexes, resizeTimer,
                 hexEdits>>

\* an import that takes the entries of the document as the map
ImportMapAsListed(doc) ==
  [k \in DOMAIN doc.hexes |->
     [q |-> doc.hexes[k].position[1], r |-> doc.hexes[k].position[2],
      s |-> doc.hexes[k].position[3],
      terrainType |-> IF doc.hexes[k].terrainType \in terrainTypes
                        THEN doc.hexes[k].terrainType ELSE "field",
      unit |-> NoUnit]]

\* fullMap of importFromJSON: a field hex per coordinate of the document's
\* radius, overwritten in document order by every entry that is not 'empty'
\* and lies on the map (the last such entry per coordinate stays)
ImportMap(doc) ==
  LET coords == HexCoords(doc.mapRadius)
      entry(c) ==
        LET hits == {i \in DOMAIN doc.hexes :
                       /\ doc.hexes[i].terrainType # "empty"
                       /\ doc.hexes[i].position = <<c[1], c[2], -c[1] - c[2]>>}
        IN  IF hits = {} THEN 0 ELSE CHOOSE i \in hits : \A j \in hits : j <= i
      unitOf(c) ==
        LET hits == {i \in DOMAIN doc.hexes :
                       /\ doc.hexes[i].terrainType # "empty"
                       /\ doc.hexes[i].position = <<c[1], c[2], -c[1] - c[2]>>
                       /\ doc.hexes[i].unit # NoUnit}
        IN  IF hits = {} THEN NoUnit
            ELSE LET u == doc.hexes[CHOOSE i \in hits : \A j \in hits : j <= i].unit
                 IN  IF u \in unitTypes THEN u ELSE "infantry"
  IN  [k \in DOMAIN coords |->
         LET c == coords[k]
             i == entry(c)
         IN  IF i = 0
               THEN FieldHex(c)
               ELSE [FieldHex(c) EXCEPT
                       !.terrainType = IF doc.hexes[i].terrainType \in terrainTypes
                                         THEN doc.hexes[i].terrainType ELSE "field",
                       !.unit = unitOf(c)]]

\* the try block of reader.onload throws: JSON.parse fails, the structure
\* check fails, or the loop reads hex.position.q of an entry without position
ImportThrows(doc) ==
  \/ doc.kind # "ok"
  \/ doc.mapRadius = 0
  \/ \E i \in DOMAIN doc.hexes :
       doc.hexes[i].terrainType # "empty" /\ doc.hexes[i].position = << >>

\* an importer that sets the radius as soon as the structure check passes
importFromJSONSetsRadiusFirst(doc) ==
  /\ ~showSizeInput
  /\ IF ImportThrows(doc)
       THEN /\ hexOp' = "importFailed"
            /\ mapRadius' = IF doc.kind = "ok" /\ doc.mapRadius # 0
                              THEN doc.mapRadius ELSE mapRadius
            /\ UNCHANGED <<hexMap, hexCount, showSizeInput>>
       ELSE /\ hexOp' = IF doc = hexDoc THEN "import" ELSE "importFile"
            /\ mapRadius' = doc.mapRadius
            /\ hexMap' = ImportMap(doc)
            /\ hexCount' = VisibleCount(ImportMap(doc))
            /\ showSizeInput' = FALSE
  /\ UNCHANGED <<deletedHexes, resizeTimer, hexDoc, exported, hexEdits>>

\* importFromJSON on a chosen file holding doc; hexOp tells the import of the
\* exported document ("import") from that of another file ("importFile") and
\* from the one that ended in the catch block ("importFailed")
importFromJSON(doc) ==
  /\ ~showSizeInput
  /\ IF ImportThrows(doc)
       THEN /\ hexOp' = "importFailed"
            /\ UNCHANGED <<mapRadius, hexMap, hexCount, showSizeInput>>
       ELSE /\ hexOp' = IF doc = hexDoc THEN "import" ELSE "importFile"
            /\ mapRadius' = doc.mapRadius
            /\ hexMap' = ImportMap(doc)
            /\ hexCount' = VisibleCount(ImportMap(doc))
            /\ showSizeInput' = FALSE
  /\ UNCHANGED <<deletedHexes, resizeTimer, hexDoc, exported, hexEdits>>

\* restoreDeletedHexes: each saved hex, in order, replaces the first hex with
\* its coordinates if that hex is empty at that point
RECURSIVE RestoreInto(_, _)
RestoreInto(updatedMap, saved) ==
  IF saved = << >>
    THEN [map |-> updatedMap, restoredCount |-> 0]
    ELSE LET d == Head(saved)
             hits == {i \in DOMAIN updatedMap : SameHex(updatedMap[i], d.q, d.r, d.s)}
             index == IF hits = {} THEN 0 ELSE CHOOSE i \in hits : \A j \in hits : i <= j
             ok == index # 0 /\ updatedMap[index].terrainType = "empty"
             rest == RestoreInto(IF ok THEN [updatedMap EXCEPT ![index] = d] ELSE updatedMap,
                                 Tail(saved))
         IN  [map |-> rest.map, restoredCount |-> rest.restoredCount + (IF ok THEN 1 ELSE 0)]

restoreDeletedHexes ==
  /\ ~showSizeInput
  /\ hexOp' = "restore"
  /\ LET res == RestoreInto(hexMap, deletedHexes)
     IN  IF Len(deletedHexes) = 0 \/ res.restoredCount = 0
           THEN UNCHANGED <<hexMap, hexCount, deletedHexes>>
           ELSE /\ hexMap' = res.map
                /\ hexCount' = hexCount + res.restoredCount
                /\ deletedHexes' = << >>
  /\ UNCHANGED <<showSizeInput, mapRadius, resizeTimer, hexDoc, exported, hexEdits>>

\* the buttons "change map size" (line 1530) and "start over" (line 1545)
ShowSizeInput ==
  /\ ~showSizeInput
  /\ showSizeInput' = TRUE
  /\ hexOp' = "other"
  /\ UNCHANGED <<mapRadius, hexMap, hexCount, deletedHexes, resizeTimer, hexDoc, exported,
                 hexEdits>>

StartOver ==
  /\ ~showSizeInput
  /\ showSizeInput' = TRUE
  /\ hexMap' = << >>
  /\ hexOp' = "other"
  /\ UNCHANGED <<mapRadius, hexCount, deletedHexes, resizeTimer, hexDoc, exported, hexEdits>>

InitHex ==
  /\ showSizeInput = TRUE
  /\ mapRadius = InitialMapRadius
  /\ hexMap = << >>
  /\ hexCount = 0
  /\ deletedHexes = << >>
  /\ resizeTimer = NoTimer
  /\ hexDoc = NoDoc
  /\ exported = [mapRadius |-> 0, hexMap |-> << >>]
  /\ hexOp = "none"
  /\ hexEdits = 0

\* ------------------------------------- TerrainGenerator (unnamed/part_000)
VARIABLES
  importSettled,  \* lib/jsonUtils: how the promise of the last importMapFromJSON settled
  genMap,   \* the map the last call of a TerrainGenerator method returned
  picked,   \* the coordinate the last call of screenToHex returned
  terrainRuns, \* utils/terrainGeneration: the last calls of generateRandomTerrain, as
               \* parameters, returned map, height noise and the map and river
               \* paths before the smoothing pass, newest last
  store,       \* the Cell objects of the rectangular editor and the grids that
               \* refer to them
  selectedBrush, \* MapEditor: selectedBrushType and the strength of
               \* softBrushSettings, in tenths
  noiseRun,    \* utils/terrainGeneration: the last call of generateNoise, as
               \* parameters, accumulated values and returned field
  buttonHeld   \* the user holds the mouse button down

\* The loops of generateRandomTerrain, generateProceduralTerrain,
\* generateIslandTerrain and generateBiomesTerrain: one hex per coordinate of
\* the radius, its terrain decided by the random source and the noise; pick
\* gives the terrain id decided for the k-th hex.
GenerateLoop(radius, pick) ==
  LET coords == HexCoords(radius)
  IN  [k \in DOMAIN coords |->
         [q |-> coords[k][1], r |-> coords[k][2], s |-> -coords[k][1] - coords[k][2],
          terrainType |-> IF pick[k] \in terrainTypes THEN pick[k] ELSE "field",
          unit |-> NoUnit]]

HexDirections == <<<<1, -1, 0>>, <<1, 0, -1>>, <<0, 1, -1>>, <<-1, 1, 0>>, <<-1, 0, 1>>, <<0, -1, 1>>>>

\* getNeighbors: the indices of the hexes of the map next to hex i, in the
\* order of the directions
getNeighbors(map, i) ==
  LET at(d) == LastIndex(map, map[i].q + HexDirections[d][1], map[i].r + HexDirections[d][2],
                         map[i].s + HexDirections[d][3])
      found == SelectSeq(<<1, 2, 3, 4, 5, 6>>, LAMBDA d : at(d) # 0)
  IN  [n \in DOMAIN found |-> at(found[n])]

CountType(map, nb, t) == Cardinality({n \in DOMAIN nb : map[nb[n]].terrainType = t})

\* this.rng() as the n-th value of the stream rnd, in tenths
Rng(rnd, n) == rnd[((n - 1) % Len(rnd)) + 1]

\* the j loop of postProcessTerrain around an isolated mountain: each
\* neighbour that is neither mountains nor water becomes hills when the
\* random source says so; st is [map, n], n counting the values drawn
RECURSIVE SurroundWithHills(_, _, _, _)
SurroundWithHills(st, nb, j, rnd) ==
  IF j > Len(nb) THEN st
  ELSE LET t == st.map[nb[j]].terrainType
       IN  IF t # "mountains" /\ t # "water"
             THEN SurroundWithHills(
                    [map |-> IF Rng(rnd, st.n + 1) > 5
                               THEN [st.map EXCEPT ![nb[j]].terrainType = "hills"]
                               ELSE st.map,
                     n |-> st.n + 1], nb, j + 1, rnd)
             ELSE SurroundWithHills(st, nb, j + 1, rnd)

\* one round of the i loop of postProcessTerrain
PostProcessHex(st, i, rnd) ==
  LET nb == getNeighbors(st.map, i)
      shore == st.map[i].terrainType # "water" /\ CountType(st.map, nb, "water") >= 3
      st1 == IF shore
               THEN [map |-> IF Rng(rnd, st.n + 1) > 3
                               THEN [st.map EXCEPT ![i].terrainType = "swamp"]
                               ELSE st.map,
                     n |-> st.n + 1]
               ELSE st
      lone == /\ st1.map[i].terrainType = "mountains"
              /\ Len(nb) - CountType(st1.map, nb, "mountains") >= 4
      st2 == IF lone THEN SurroundWithHills(st1, nb, 1, rnd) ELSE st1
      wood == st2.map[i].terrainType = "field" /\ CountType(st2.map, nb, "swamp") >= 2
  IN  IF wood
        THEN [map |-> IF Rng(rnd, st2.n + 1) > 7
                        THEN [st2.map EXCEPT ![i].terrainType = "forest"]
                        ELSE st2.map,
              n |-> st2.n + 1]
        ELSE st2

RECURSIVE PostProcessFrom(_, _, _)
PostProcessFrom(st, i, rnd) ==
  IF i > Len(st.map) THEN st.map
  ELSE PostProcessFrom(PostProcessHex(st, i, rnd), i + 1, rnd)

postProcessTerrain(map, rnd) == PostProcessFrom([map |-> map, n |-> 0], 1, rnd)

\* a TerrainGenerator method called with a radius: "random" returns the loop's
\* map, "procedural", "island" and "biomes" post-process it
GenerateTerrain(method, radius, pick, rnd) ==
  /\ genMap' = IF method = "random"
                 THEN GenerateLoop(radius, pick)
                 ELSE postProcessTerrain(GenerateLoop(radius, pick), rnd)
  /\ UNCHANGED <<rectVars, rt, strokes, latest, hexVars, importSettled, picked, terrainRuns, store, selectedBrush, noiseRun, buttonHeld>>

\* Math.round of n / Denominator
RoundFraction(n) == (2 * n + Denominator) \div (2 * Denominator)

AbsDiff(a, b) == IF a > b THEN a - b ELSE b - a

\* screenToHex that returns the three roundings as they are
screenToHexRounded(qn, rn) ==
  [q |-> RoundFraction(qn), r |-> RoundFraction(rn), s |-> RoundFraction(-qn - rn)]

\* screenToHex after the conversion of the screen point to fractional cube
\* coordinates q = qn / Denominator and r = rn / Denominator
screenToHex(qn, rn) ==
  LET sn == -qn - rn
      qRound == RoundFraction(qn)
      rRound == RoundFraction(rn)
      sRound == RoundFraction(sn)
      qDiff == AbsDiff(qRound * Denominator, qn)
      rDiff == AbsDiff(rRound * Denominator, rn)
      sDiff == AbsDiff(sRound * Denominator, sn)
  IN  IF qDiff > rDiff /\ qDiff > sDiff
        THEN [q |-> -rRound - sRound, r |-> rRound, s |-> sRound]
      ELSE IF rDiff > sDiff
        THEN [q |-> qRound, r |-> -qRound - sRound, s |-> sRound]
      ELSE [q |-> qRound, r |-> rRound, s |-> -qRound - rRound]

ScreenToHex(qn, rn) ==
  /\ picked' = screenToHex(qn, rn)
  /\ UNCHANGED <<rectVars, rt, strokes, latest, hexVars, importSettled, genMap, terrainRuns, store, selectedBrush, noiseRun, buttonHeld>>

InitGenerator == genMap = << >> /\ picked = [q |-> 0, r |-> 0, s |-> 0]

\* ------------------------------------------------------- lib/jsonUtils.ts
NoSettlement == [state |-> "none"]

\* reader.onload of importMapFromJSON: the promise rejects when the text does
\* not parse or width, height or data is falsy, and resolves with the parsed
\* document otherwise
importMapFromJSON(doc) ==
  IF doc.kind # "ok"
    THEN [state |-> "rejected", reason |-> "parse"]
  ELSE IF doc.width = 0 \/ doc.height = 0 \/ ~doc.hasData
    THEN [state |-> "rejected", reason |-> "format"]
  ELSE [state |-> "resolved", mapData |-> doc]

ImportMapFile(doc) ==
  /\ importSettled' = importMapFromJSON(doc)
  /\ UNCHANGED <<rectVars, rt, strokes, latest, hexVars, genMap, picked, terrainRuns, store, selectedBrush, noiseRun, buttonHeld>>

InitImport == importSettled = NoSettlement

\* ------------------------------------------- utils/terrainGeneration.ts
\* Noise values are hundredths, elevations thousandths, and a value of
\* Math.random() is a number of tenths taken from the stream rnd, the n-th
\* call taking the n-th element (the stream repeats).  The loops carry the
\* count n of calls, which is never negative: their exit tests read it so
\* that each round is evaluated before the next one starts.
MathRandom(rnd, n) == rnd[((n - 1) % Len(rnd)) + 1]

\* random(x, y, s) of generateNoise summed over the octaves: a fixed function
\* of the lattice point, the scale and the seed
NoiseRaw(x, y, scale, seed) == ((x * 13 + y * 78 + seed * 44 + scale * 7) * 4376) % 101

\* noiseMap of generateNoise after the octaves
NoiseField(size, scale, seed) ==
  [y \in 0..(size.height - 1) |->
    [x \in 0..(size.width - 1) |-> NoiseRaw(x, y, scale, seed)]]

\* the value of 0 / 0, which is no number of hundredths; a field of NaN
\* comes from a field of one value, such as a map of one cell
NaN == -1

\* the two closing loops of generateNoise: (noiseMap[y][x] - min) / (max - min),
\* which is 0 / 0 in every cell when max = min
Normalize(raw) ==
  LET all == {raw[y][x] : y \in DOMAIN raw, x \in DOMAIN raw[0]}
      lo == CHOOSE v \in all : \A w \in all : v <= w
      hi == CHOOSE v \in all : \A w \in all : v >= w
  IN  [y \in DOMAIN raw |->
        [x \in DOMAIN raw[y] |->
           IF hi = lo THEN NaN ELSE ((raw[y][x] - lo) * 100) \div (hi - lo)]]

\* generateNoise: the raw values normalized to [0, 1] by the smallest and the
\* largest of them
generateNoise(size, scale, seed) == Normalize(NoiseField(size, scale, seed))

GenerateNoise(size, scale, seed) ==
  /\ noiseRun' = [size |-> size, scale |-> scale, seed |-> seed,
                  raw |-> NoiseField(size, scale, seed),
                  field |-> generateNoise(size, scale, seed)]
  /\ UNCHANGED <<rectVars, rt, strokes, latest, hexVars, importSettled, genMap, picked,
                 terrainRuns, store, selectedBrush, buttonHeld>>

NoNoise == [size |-> [width |-> 0, height |-> 0]]

InitNoise == noiseRun = NoNoise

\* Math.round of v thousandths
RoundThousandths(v) == (v + 500) \div 1000

\* the type and height the cell loop decides from the elevation (thousandths)
\* and the moisture (hundredths); waterThreshold is in hundredths
Biome(elevation, moisture, waterThreshold) ==
  IF elevation < 300 THEN
    IF moisture < waterThreshold
      THEN [type |-> "field", height |-> Max(1, RoundThousandths(elevation * 5))]
      ELSE [type |-> "water", height |-> 1]
  ELSE IF elevation < 500 THEN
    IF moisture < waterThreshold
      THEN [type |-> "field", height |-> Max(1, RoundThousandths(elevation * 6))]
    ELSE IF moisture < 70
      THEN [type |-> "swamp", height |-> Max(1, RoundThousandths(elevation * 4))]
      ELSE [type |-> "water", height |-> 1]
  ELSE IF elevation < 700 THEN
    IF moisture < waterThreshold
      THEN [type |-> "field", height |-> Max(3, RoundThousandths(elevation * 7))]
    ELSE IF moisture < 80
      THEN [type |-> "forest", height |-> Max(2, RoundThousandths(elevation * 8))]
      ELSE [type |-> "swamp", height |-> Max(2, RoundThousandths(elevation * 5))]
  ELSE
    IF moisture < 50
      THEN [type |-> "highland", height |-> Max(5, RoundThousandths(elevation * 10))]
      ELSE [type |-> "forest", height |-> Max(4, RoundThousandths(elevation * 8))]

InMap(size, x, y) == x >= 0 /\ x < size.width /\ y >= 0 /\ y < size.height

\* mapData[y][x] of the source is map[y + 1][x + 1]
SetCell(map, x, y, cell) == [map EXCEPT ![y + 1][x + 1] = cell]

Swamped(cell) == [type |-> "swamp", height |-> Max(1, cell.height - 1)]

\* the cell loop from cell k on, in row order; st is [map, n], n counting the
\* calls of Math.random so far
RECURSIVE TerrainCellsFrom(_, _, _, _)
TerrainCellsFrom(st, k, size, maps) ==
  IF k >= size.width * size.height \/ st.n < 0
    THEN st
    ELSE LET x == k % size.width
             y == k \div size.width
             biome == Biome(maps.heightMap[y][x] * maps.heightMultiplier,
                            maps.moistureMap[y][x], maps.waterThreshold)
             onRoad == maps.biomesMap[y][x] > 48 /\ maps.biomesMap[y][x] < 52
             road == onRoad /\ MathRandom(maps.rnd, st.n + 1) < 7
             cell == IF road
                       THEN [type |-> "asphalt",
                             height |-> Max(1, Min(biome.height - 1, 3))]
                       ELSE biome
         IN  TerrainCellsFrom([map |-> SetCell(st.map, x, y, cell),
                               n |-> IF onRoad THEN st.n + 1 ELSE st.n],
                              k + 1, size, maps)

\* the loop that chooses a river source: sample i takes the draws n + 2i + 1
\* and n + 2i + 2; a sample replaces the source when it is higher than every
\* sample before it and than 0
RiverSource(n, size, maps) ==
  LET sx(i) == (MathRandom(maps.rnd, n + 2 * i + 1) * size.width) \div 10
      sy(i) == (MathRandom(maps.rnd, n + 2 * i + 2) * size.height) \div 10
      elev(i) == maps.heightMap[sy(i)][sx(i)]
      samples == 0..(RiverSourceSamples - 1)
      top == CHOOSE e \in {elev(i) : i \in samples} : \A i \in samples : elev(i) <= e
      first == CHOOSE i \in samples : elev(i) = top /\ \A j \in 0..(i - 1) : elev(j) < top
  IN  IF top > 0
        THEN [x |-> sx(first), y |-> sy(first), n |-> n + 2 * RiverSourceSamples]
        ELSE [x |-> 0, y |-> 0, n |-> n + 2 * RiverSourceSamples]

Directions == <<<<-1, 0>>, <<1, 0>>, <<0, -1>>, <<0, 1>>, <<-1, -1>>, <<1, -1>>, <<-1, 1>>,
                <<1, 1>>>>

\* the neighbour the river moves to from (x, y): the first of the directions
\* with the lowest height inside the map, (x, y) itself when there is none
RiverNext(x, y, size, maps) ==
  LET inside == SelectSeq(Directions, LAMBDA d : InMap(size, x + d[1], y + d[2]))
      elev(d) == maps.heightMap[y + d[2]][x + d[1]]
      best == {i \in DOMAIN inside :
                 /\ \A j \in DOMAIN inside : elev(inside[i]) <= elev(inside[j])
                 /\ \A j \in 1..(i - 1) : elev(inside[j]) > elev(inside[i])}
  IN  IF inside = << >>
        THEN <<x, y>>
        ELSE LET d == inside[CHOOSE i \in best : TRUE]
             IN  <<x + d[1], y + d[2]>>

\* the eight cells around (x, y), rows first, from the k-th on: a cell inside
\* the map that is not water becomes a swamp when Math.random() < 0.4
RECURSIVE RiverShoresFrom(_, _, _, _, _, _)
RiverShoresFrom(st, k, x, y, size, maps) ==
  IF k >= 9 \/ st.n < 0
    THEN st
    ELSE LET sx == x + (k % 3) - 1
             sy == y + (k \div 3) - 1
             asks == k # 4 /\ InMap(size, sx, sy) /\ st.map[sy + 1][sx + 1].type # "water"
             hit == asks /\ MathRandom(maps.rnd, st.n + 1) < 4
         IN  RiverShoresFrom([map |-> IF hit
                                        THEN SetCell(st.map, sx, sy,
                                                     Swamped(st.map[sy + 1][sx + 1]))
                                        ELSE st.map,
                              n |-> IF asks THEN st.n + 1 ELSE st.n],
                             k + 1, x, y, size, maps)

\* the river path from step i on; w is [map, n, x, y, walk], walk being the
\* cells the loop has turned into water so far, in order
RECURSIVE RiverWalkFrom(_, _, _, _, _)
RiverWalkFrom(w, i, riverLength, size, maps) ==
  IF i >= riverLength \/ w.n < 0
    THEN w
    ELSE LET wet == SetCell(w.map, w.x, w.y, [type |-> "water", height |-> 1])
             walk == Append(w.walk, <<w.x, w.y>>)
             next == RiverNext(w.x, w.y, size, maps)
         IN  IF next = <<w.x, w.y>>
               THEN [w EXCEPT !.map = wet, !.walk = walk]
               ELSE LET st == RiverShoresFrom([map |-> wet, n |-> w.n], 0, next[1], next[2],
                                              size, maps)
                    IN  RiverWalkFrom([map |-> st.map, n |-> st.n, x |-> next[1],
                                       y |-> next[2], walk |-> walk],
                                      i + 1, riverLength, size, maps)

\* the nine cells around the lake cell (lx, ly), itself included: those
\* inside the map that are not water become swamps
LakeShore(map, lx, ly, size) ==
  [r \in DOMAIN map |->
    [c \in DOMAIN map[r] |->
       IF /\ c - 1 >= lx - 1 /\ c - 1 <= lx + 1
          /\ r - 1 >= ly - 1 /\ r - 1 <= ly + 1
          /\ map[r][c].type # "water"
         THEN Swamped(map[r][c])
         ELSE map[r][c]]]

\* one row of the lake square around (x, y), from dx on
RECURSIVE LakeRowFrom(_, _, _, _, _, _, _)
LakeRowFrom(st, dx, dy, lakeSize, x, y, size) ==
  IF dx > lakeSize \/ st.n < 0
    THEN st
    ELSE LET lx == x + dx
             ly == y + dy
             inLake == InMap(size, lx, ly) /\ dx * dx + dy * dy <= lakeSize * lakeSize
             rim == inLake /\ dx * dx + dy * dy > (lakeSize - 1) * (lakeSize - 1)
             wet == IF inLake
                      THEN SetCell(st.map, lx, ly, [type |-> "water", height |-> 1])
                      ELSE st.map
             shore == rim /\ MathRandom(st.rnd, st.n + 1) < 7
             after == [map |-> IF shore THEN LakeShore(wet, lx, ly, size) ELSE wet,
                       n |-> IF rim THEN st.n + 1 ELSE st.n,
                       rnd |-> st.rnd]
         IN  LakeRowFrom(after, dx + 1, dy, lakeSize, x, y, size)

\* the lake square around (x, y), rows first, from row dy on
RECURSIVE LakeFrom(_, _, _, _, _, _)
LakeFrom(st, dy, lakeSize, x, y, size) ==
  IF dy > lakeSize \/ st.n < 0
    THEN st
    ELSE LakeFrom(LakeRowFrom(st, -lakeSize, dy, lakeSize, x, y, size), dy + 1, lakeSize,
                  x, y, size)

\* the rivers from river r on; st is [map, n, walks], walks being the paths
\* of the rivers so far
RECURSIVE RiversFrom(_, _, _, _, _)
RiversFrom(st, r, numRivers, size, maps) ==
  IF r >= numRivers \/ st.n < 0
    THEN st
    ELSE LET src == RiverSource(st.n, size, maps)
             riverLength == (MathRandom(maps.rnd, src.n + 1) * size.width) \div 20 + 5
             w == RiverWalkFrom([map |-> st.map, n |-> src.n + 1, x |-> src.x, y |-> src.y,
                                 walk |-> << >>],
                                0, riverLength, size, maps)
             walks == Append(st.walks, w.walk)
             hasLake == MathRandom(maps.rnd, w.n + 1) < 5
             lakeSize == (MathRandom(maps.rnd, w.n + 2) * 3) \div 10 + 2
             lake == LakeFrom([map |-> w.map, n |-> w.n + 2, rnd |-> maps.rnd], -lakeSize, lakeSize,
                              w.x, w.y, size)
         IN  RiversFrom(IF hasLake THEN [map |-> lake.map, n |-> lake.n, walks |-> walks]
                                   ELSE [map |-> w.map, n |-> w.n + 1, walks |-> walks],
                        r + 1, numRivers, size, maps)

\* a smoothing pass that does not skip water and asphalt
SmoothHeightsEveryType(map, size) ==
  LET block(x, y) == {c \in ((x - 1)..(x + 1)) \X ((y - 1)..(y + 1)) :
                        InMap(size, c[1], c[2])}
      RECURSIVE Sum(_)
      Sum(cs) == IF cs = {} THEN 0
                 ELSE LET c == CHOOSE d \in cs : TRUE
                      IN  map[c[2] + 1][c[1] + 1].height + Sum(cs \ {c})
      avgHeight(x, y) == (2 * Sum(block(x, y)) + Cardinality(block(x, y)))
                           \div (2 * Cardinality(block(x, y)))
  IN  [r \in DOMAIN map |->
        [c \in DOMAIN map[r] |->
           IF /\ r - 1 >= 1 /\ r - 1 < size.height - 1
              /\ c - 1 >= 1 /\ c - 1 < size.width - 1
             THEN [map[r][c] EXCEPT !.height = (map[r][c].height + avgHeight(c - 1, r - 1))
                                                 \div 2]
             ELSE map[r][c]]]

\* a smoothing pass that writes into the map it reads: the cells before a
\* cell, in row order, are read as already smoothed
RECURSIVE SmoothHeightsInPlaceFrom(_, _, _)
SmoothHeightsInPlaceFrom(map, k, size) ==
  IF k >= size.width * size.height
    THEN map
    ELSE LET x == k % size.width
             y == k \div size.width
             smooth(t) == t # "water" /\ t # "asphalt"
             block == {c \in ((x - 1)..(x + 1)) \X ((y - 1)..(y + 1)) :
                         InMap(size, c[1], c[2]) /\ smooth(map[c[2] + 1][c[1] + 1].type)}
             total == LET RECURSIVE Sum(_)
                          Sum(cs) == IF cs = {} THEN 0
                                     ELSE LET c == CHOOSE d \in cs : TRUE
                                          IN  map[c[2] + 1][c[1] + 1].height + Sum(cs \ {c})
                      IN  Sum(block)
             avgHeight == (2 * total + Cardinality(block)) \div (2 * Cardinality(block))
             inner == x >= 1 /\ x < size.width - 1 /\ y >= 1 /\ y < size.height - 1
         IN  SmoothHeightsInPlaceFrom(
               IF inner /\ smooth(map[y + 1][x + 1].type)
                 THEN SetCell(map, x, y, [map[y + 1][x + 1] EXCEPT
                                            !.height = (map[y + 1][x + 1].height + avgHeight) \div 2])
                 ELSE map,
               k + 1, size)

SmoothHeightsInPlace(map, size) == SmoothHeightsInPlaceFrom(map, 0, size)

\* the smoothing pass: every cell off the border that is neither water nor
\* asphalt takes the mean, rounded down, of its height and the rounded
\* average height of the cells of its 3x3 block that are neither
SmoothHeights(map, size) ==
  LET smooth(t) == t # "water" /\ t # "asphalt"
      block(x, y) == {c \in ((x - 1)..(x + 1)) \X ((y - 1)..(y + 1)) :
                        InMap(size, c[1], c[2]) /\ smooth(map[c[2] + 1][c[1] + 1].type)}
      RECURSIVE Sum(_)
      Sum(cs) == IF cs = {} THEN 0
                 ELSE LET c == CHOOSE d \in cs : TRUE
                      IN  map[c[2] + 1][c[1] + 1].height + Sum(cs \ {c})
      avgHeight(x, y) == (2 * Sum(block(x, y)) + Cardinality(block(x, y)))
                           \div (2 * Cardinality(block(x, y)))
  IN  [r \in DOMAIN map |->
        [c \in DOMAIN map[r] |->
           IF /\ r - 1 >= 1 /\ r - 1 < size.height - 1
              /\ c - 1 >= 1 /\ c - 1 < size.width - 1
              /\ smooth(map[r][c].type)
             THEN [map[r][c] EXCEPT !.height = (map[r][c].height + avgHeight(c - 1, r - 1))
                                                 \div 2]
             ELSE map[r][c]]]

\* the noise maps and constants generateRandomTerrain computes first
TerrainMaps(size, params, rnd) ==
  LET seed == IF params.randomSeed # 0 THEN params.randomSeed
              ELSE MathRandom(rnd, 1) * 1000
  IN  [heightMap |-> generateNoise(size, 10 * params.terrainScale, seed),
       biomesMap |-> generateNoise(size, 12 * params.terrainScale, seed + 1000),
       moistureMap |-> generateNoise(size, 15 * params.terrainScale, seed + 2000),
       waterThreshold |-> 40 - 5 * params.waterLevel,
       heightMultiplier |-> 8 + params.mountainsLevel,
       rnd |-> rnd]

\* mapData of generateRandomTerrain after the rivers and before the smoothing
\* pass, with the paths of the rivers
TerrainRivers(size, params, rnd) ==
  LET n0 == IF params.randomSeed # 0 THEN 0 ELSE 1
      maps == TerrainMaps(size, params, rnd)
      cells == TerrainCellsFrom([map |-> createEmptyMap(size), n |-> n0], 0, size, maps)
  IN  RiversFrom([map |-> cells.map, n |-> cells.n, walks |-> << >>], 0,
                 Max(1, params.waterLevel), size, maps)

\* generateRandomTerrain(mapSize, params) when Math.random yields rnd
generateRandomTerrain(size, params, rnd) ==
  SmoothHeights(TerrainRivers(size, params, rnd).map, size)

GenerateRandomTerrain(size, params, rnd) ==
  /\ LET rivers == TerrainRivers(size, params, rnd)
     IN  terrainRuns' =
           (IF terrainRuns = << >> THEN << >> ELSE <<terrainRuns[Len(terrainRuns)]>>) \o
             <<[mapSize |-> size, params |-> params,
                map |-> generateRandomTerrain(size, params, rnd),
                heightMap |-> TerrainMaps(size, params, rnd).heightMap,
                rivers |-> [map |-> rivers.map, walks |-> rivers.walks]]>>
  /\ UNCHANGED <<rectVars, rt, strokes, latest, hexVars, importSettled, genMap, picked, store, selectedBrush, noiseRun, buttonHeld>>

InitTerrain == terrainRuns = << >>

\* ------------------------------------------- the Cell objects of MapEditor
\* store.cells[id] is the Cell object id; a grid is a matrix of ids.  mapData,
\* undoStack and redoStack are the editor's state as references; an entry of
\* a stack is [grid, pushed], pushed being the cells the grid had when it was
\* pushed.  The row copy mapData.map(row => [...row]) and the reference to
\* mapData give the same matrix of ids.
Deref(cells, grid) == [r \in DOMAIN grid |-> [c \in DOMAIN grid[r] |-> cells[grid[r][c]]]]

\* new Cell objects holding values, after the objects of cells
Allocate(cells, values) ==
  LET width == Len(values[1])
      fresh == [k \in 1..(Len(values) * width) |->
                  values[((k - 1) \div width) + 1][((k - 1) % width) + 1]]
  IN  [cells |-> cells \o fresh,
       grid |-> [r \in DOMAIN values |->
                  [c \in DOMAIN values[r] |-> Len(cells) + (r - 1) * width + c]]]

\* an update that writes newValues into the Cell objects of grid
WriteInPlace(cells, grid, newValues) ==
  [cells |-> [id \in DOMAIN cells |->
                IF \E r \in DOMAIN grid : \E c \in DOMAIN grid[r] : grid[r][c] = id
                  THEN LET r == CHOOSE i \in DOMAIN grid : \E c \in DOMAIN grid[i] : grid[i][c] = id
                           c == CHOOSE j \in DOMAIN grid[r] : grid[r][j] = id
                       IN  newValues[r][c]
                  ELSE cells[id]],
   grid |-> grid]

\* newMapData of updateCells and fillMap: JSON.parse(JSON.stringify(mapData))
\* makes new Cell objects, and the loop writes newValues into them
DeepCopyWrite(cells, grid, newValues) == Allocate(cells, newValues)

Snapshot(cells, grid) == [grid |-> grid, pushed |-> Deref(cells, grid)]

\* saveState(newMapData) after the update gave the objects and grid of made
StoreSaveState(made) ==
  store' = [store EXCEPT
              !.cells = made.cells,
              !.undoStack = newUndoStack(store.mapSize, store.undoStack,
                                         Snapshot(made.cells, store.mapData)),
              !.redoStack = << >>,
              !.mapData = made.grid,
              !.edits = store.edits + 1]

StoreCreateMap(size) ==
  /\ store.mapData = << >>
  /\ LET made == Allocate(store.cells, createEmptyMap(size))
     IN  store' = [store EXCEPT !.mapSize = size, !.cells = made.cells, !.mapData = made.grid]

StoreUpdateCell(row, col, tool, height, brush) ==
  /\ store.mapData # << >>
  /\ StoreSaveState(DeepCopyWrite(store.cells, store.mapData,
                                  updateCells(Deref(store.cells, store.mapData), row, col,
                                              store.mapSize, tool, height, brush)))

StoreFillAll(tool, height) ==
  /\ store.mapData # << >>
  /\ StoreSaveState(DeepCopyWrite(store.cells, store.mapData,
                                  fillMap(Deref(store.cells, store.mapData), store.mapSize,
                                          tool, height)))

StoreRandomFill ==
  /\ store.mapData # << >>
  /\ \E g \in GenOutputs(store.mapSize) : StoreSaveState(Allocate(store.cells, g))

StoreUndo ==
  /\ store.mapData # << >>
  /\ store.undoStack # << >>
  /\ store' = [store EXCEPT
                 !.redoStack = Append(store.redoStack, Snapshot(store.cells, store.mapData)),
                 !.undoStack = SubSeq(store.undoStack, 1, Len(store.undoStack) - 1),
                 !.mapData = store.undoStack[Len(store.undoStack)].grid]

StoreRedo ==
  /\ store.mapData # << >>
  /\ store.redoStack # << >>
  /\ store' = [store EXCEPT
                 !.undoStack = Append(store.undoStack, Snapshot(store.cells, store.mapData)),
                 !.redoStack = SubSeq(store.redoStack, 1, Len(store.redoStack) - 1),
                 !.mapData = store.redoStack[Len(store.redoStack)].grid]

InitStore ==
  store = [cells |-> << >>, mapSize |-> DEFAULT_MAP_SIZE, mapData |-> << >>,
           undoStack |-> << >>, redoStack |-> << >>, edits |-> 0]

\* ------------------------------------------- the brush type of MapEditor
\* the values of the strength slider (min 0.1, max 1, step 0.1), in tenths
SoftStrengths == {5, 10}

SelectBrushType(type) ==
  /\ MouseReaches
  /\ selectedBrush' = [selectedBrush EXCEPT !.type = type]

\* handleSave of SoftBrushSettingsDialog, which the toolbar opens for the soft brush
SetSoftBrushSettings(strength) ==
  /\ MouseReaches
  /\ selectedBrush.type = "soft"
  /\ selectedBrush' = [selectedBrush EXCEPT !.strength = strength]

\* selectedBrushType starts 'normal'; DEFAULT_SOFT_BRUSH_SETTINGS is one of
\* the slider's values
InitSelectedBrush(strengths) ==
  \E strength \in strengths : selectedBrush = [type |-> "normal", strength |-> strength]

\* ------------------------------------------- the mouse over MapEditor
\* useCanvasRenderer, which the effect of line 743 sets for maps above
\* LargeMapCells cells
UsesCanvas == TotalCells(mapSize) > LargeMapCells

\* the button goes down over a cell
PressOnCell(row, col, tool, height, brush) ==
  /\ ~buttonHeld
  /\ buttonHeld' = TRUE
  /\ MouseDown(row, col, tool, height, brush)

\* the button goes up over a cell or over the canvas
ReleaseOnMap ==
  /\ buttonHeld
  /\ buttonHeld' = FALSE
  /\ MouseUp

\* the pointer leaves the map with the button down, and the button goes up
\* there: the canvas has onMouseOut = handleCanvasMouseOut, which calls
\* handleMouseUp; a cell of the DOM grid has onMouseOut = handleMouseOut, which
\* hides the tooltip; nothing listens to the release
ReleaseOutside ==
  /\ MouseReaches
  /\ buttonHeld
  /\ buttonHeld' = FALSE
  /\ isDrawing' = IF UsesCanvas THEN FALSE ELSE isDrawing
  /\ lastOp' = Op("other")
  /\ UNCHANGED <<step, mapSize, mapData, undoStack, redoStack, keyHandler, isLoading,
                 inWindow, drawTimer, loadTimer, edits>>

\* the pointer comes over a cell
Hover(row, col, tool, height, brush) ==
  /\ MouseOver(row, col, tool, height, brush)
  /\ UNCHANGED buttonHeld

InitButton == buttonHeld = FALSE

vars == <<step, mapSize, mapData, undoStack, redoStack, keyHandler, isDrawing, isLoading,
          inWindow, drawTimer, loadTimer, lastOp, edits, rt, strokes, latest,
          showSizeInput, mapRadius, hexMap, hexCount, deletedHexes, resizeTimer,
          hexDoc, exported, hexOp, hexEdits, importSettled, genMap, picked, terrainRuns, store, selectedBrush, noiseRun, buttonHeld>>

Init == InitRect(DEFAULT_MAP_SIZE) /\ InitHex /\ InitImport /\ InitGenerator /\ InitTerrain /\ InitStore /\ InitSelectedBrush({10}) /\ InitNoise /\ InitButton

EditorStep ==
  \/ \E size \in Sizes : SetMapSize(size)
  \/ CreateMap
  \/ ChangeMapSize
  \/ \E pos \in Positions(mapSize), tool \in Tools, h \in Heights, b \in Brushes :
       edits < MaxEdits /\ MouseDown(pos[1], pos[2], tool, h, b)
  \/ \E pos \in Positions(mapSize), tool \in Tools, h \in Heights, b \in Brushes :
       (isDrawing => edits < MaxEdits) /\ MouseOver(pos[1], pos[2], tool, h, b)
  \/ MouseUp
  \/ \E tool \in Tools, h \in Heights : edits < MaxEdits /\ FillAll(tool, h)
  \/ edits < MaxEdits /\ RandomFill
  \/ Undo
  \/ Redo
  \/ CtrlZ
  \/ CtrlY
  \/ WindowElapse
  \/ DrawTimerFire
  \/ LoadTimerFire

Next == EditorStep /\ rt' = RtNext /\ UNCHANGED <<strokes, latest>> /\ UNCHANGED <<hexVars, importSettled, genMap, picked, terrainRuns, store, selectedBrush, noiseRun, buttonHeld>>

Spec == Init /\ [][Next]_vars


\* The brush and the fill on maps held cell for cell: the size form holds a
\* 5x5 or a 3x4 map, and every brush size from 1 to 5 is used at the centre,
\* a corner, an edge and two off-centre cells.
BrushMapSizes == {[width |-> 5, height |-> 5], [width |-> 4, height |-> 3]}

BrushCentres == {<<2, 2>>, <<0, 0>>, <<0, 2>>, <<4, 4>>, <<1, 3>>}

BrushSizes == 1..5

\* <<selectedTool, selectedHeight>>
BrushTools == {<<"water", 0>>, <<"height", 0>>, <<"height", 2>>}

StrokesNext ==
  IF lastOp'.op \in CommitOps THEN Append(strokes, lastOp')
  ELSE IF lastOp'.op = "createMap" THEN << >>
  ELSE strokes

InitBrush == (\E size \in BrushMapSizes : InitRect(size)) /\ InitHex /\ InitImport /\ InitGenerator /\ InitTerrain /\ InitStore /\ InitSelectedBrush({10}) /\ InitNoise /\ InitButton

BrushStep ==
  \/ CreateMap
  \/ \E pos \in BrushCentres \cap Positions(mapSize), t \in BrushTools, b \in BrushSizes :
       Len(strokes) < MaxStrokes /\ MouseDown(pos[1], pos[2], t[1], t[2], b)
  \/ \E t \in BrushTools : Len(strokes) < MaxStrokes /\ FillAll(t[1], t[2])

NextBrush == BrushStep /\ rt' = RtNext /\ strokes' = StrokesNext /\ UNCHANGED <<latest, hexVars, importSettled, genMap, picked, terrainRuns, store, selectedBrush, noiseRun, buttonHeld>>

SpecBrush == InitBrush /\ [][NextBrush]_vars

\* Long histories: one map per run, of a size on either side of each
\* threshold.  The user paints one cell of the top-left 2x2 corner at a time,
\* choosing it from the grid on screen so that the grids cycle through eight
\* different ones (the corner fills with water cell by cell, then with field),
\* with undo and redo at any point and a new edit only when nothing is left
\* to redo.
DeepSizes == {DEFAULT_MAP_SIZE, [width |-> 100, height |-> 100], LargeSize,
              [width |-> 200, height |-> 200], VeryLargeSize}

CornerType(grid, i) == grid[(i \div 2) + 1][(i % 2) + 1].type

ScriptCell(grid) ==
  IF CornerType(grid, 0) = CornerType(grid, 3)
    THEN 0
    ELSE CHOOSE i \in 1..3 :
           /\ CornerType(grid, i) # CornerType(grid, 0)
           /\ \A j \in 1..(i - 1) : CornerType(grid, j) = CornerType(grid, 0)

ScriptTool(grid) ==
  IF CornerType(grid, 0) = CornerType(grid, 3)
    THEN (IF CornerType(grid, 0) = "water" THEN "field" ELSE "water")
    ELSE CornerType(grid, 0)

DeepStep ==
  \/ \E size \in DeepSizes : SetMapSize(size)
  \/ CreateMap
  \/ LoadTimerFire
  \/ /\ edits < MaxDeepEdits
     /\ redoStack = << >>
     /\ MouseDown(ScriptCell(mapData) \div 2, ScriptCell(mapData) % 2, ScriptTool(mapData), 1, 1)
  \/ Undo
  \/ Redo
  \/ WindowElapse
  \/ DrawTimerFire

NextDeep == DeepStep /\ rt' = RtNext /\ UNCHANGED <<strokes, latest>> /\ UNCHANGED <<hexVars, importSettled, genMap, picked, terrainRuns, store, selectedBrush, noiseRun, buttonHeld>>

SpecDeep == Init /\ [][NextDeep]_vars


\* Files offered to the importers.  A hex file: kind, hexes, mapRadius (see
\* NoDoc); an entry without position has position << >>.
HexEntry(q, r, terrainType, unit) ==
  [position |-> <<q, r, -q - r>>, terrainType |-> terrainType, unit |-> unit]

ImportDocs ==
  {[kind |-> "syntax", hexes |-> << >>, mapRadius |-> 0],
   [kind |-> "noHexes", hexes |-> << >>, mapRadius |-> 1],
   [kind |-> "notArray", hexes |-> << >>, mapRadius |-> 1],
   [kind |-> "ok", hexes |-> <<HexEntry(0, 0, "water", NoUnit)>>, mapRadius |-> 0],
   [kind |-> "ok", mapRadius |-> 1,
    hexes |-> <<HexEntry(0, 0, "water", NoUnit),
                [position |-> << >>, terrainType |-> "water", unit |-> NoUnit]>>],
   [kind |-> "ok", mapRadius |-> 1,
    hexes |-> <<HexEntry(0, 0, "lava", "dragon"), HexEntry(5, 0, "water", NoUnit),
                HexEntry(1, 0, "empty", NoUnit), HexEntry(0, 1, "forest", "tank")>>]}

\* A file for importMapFromJSON: kind "ok" for a text JSON.parse accepts,
\* "syntax" for one it rejects; width or height 0 and hasData FALSE stand for
\* a missing (falsy) field.
RectGrid == [i \in 1..2 |-> [j \in 1..2 |-> IF i = j THEN [type |-> "water", height |-> 0]
                                                     ELSE DefaultCell]]

RectDocs ==
  {[kind |-> "syntax", width |-> 0, height |-> 0, hasData |-> FALSE, data |-> << >>],
   [kind |-> "ok", width |-> 0, height |-> 2, hasData |-> TRUE, data |-> RectGrid],
   [kind |-> "ok", width |-> 2, height |-> 0, hasData |-> TRUE, data |-> RectGrid],
   [kind |-> "ok", width |-> 2, height |-> 2, hasData |-> FALSE, data |-> << >>],
   [kind |-> "ok", width |-> 2, height |-> 2, hasData |-> TRUE, data |-> << >>],
   [kind |-> "ok", width |-> 2, height |-> 2, hasData |-> TRUE, data |-> RectGrid]}

\* The hex editor: maps of radius up to MaxRadius, a few clicks, one export.
HexRadii == 1..MaxRadius

\* the clicked coordinates: the centre, one of its neighbours, one hex of
\* the second ring
HexTargets == {<<0, 0>>, <<1, 0>>, <<2, -1>>}

\* the selections of a click: edit mode, manage action, terrain, unit
HexSelections ==
  {<<"terrain", "add", "water", NoUnit>>, <<"terrain", "add", "field", NoUnit>>,
   <<"units", "add", "field", "infantry">>, <<"units", "add", "field", NoUnit>>,
   <<"manage", "add", "water", NoUnit>>, <<"manage", "delete", "field", NoUnit>>}

HexStep ==
  \/ \E radius \in HexRadii : setMapRadius(radius)
  \/ mapRadius <= MaxRadius /\ initializeMap
  \/ ResizeTimerFire
  \/ mapRadius < MaxRadius /\ increaseRadius
  \/ decreaseRadius
  \/ \E i \in DOMAIN hexMap, sel \in HexSelections :
       /\ hexEdits < MaxHexEdits
       /\ <<hexMap[i].q, hexMap[i].r>> \in HexTargets
       /\ handleHexClick(i, sel[1], sel[2], sel[3], sel[4])
  \/ hexDoc = NoDoc /\ exportToJSON
  \/ hexDoc # NoDoc /\ importFromJSON(hexDoc)
  \/ restoreDeletedHexes
  \/ ShowSizeInput
  \/ StartOver

NextHex == HexStep /\ UNCHANGED <<rectVars, rt, strokes, latest, importSettled, genMap, picked, terrainRuns, store, selectedBrush, noiseRun, buttonHeld>>

SpecHex == Init /\ [][NextHex]_vars

\* The importers: hex maps of radius up to MaxRadius with a few clicks, the
\* hex importer and importMapFromJSON fed with files.
ImportStep ==
  \/ (\E radius \in HexRadii : setMapRadius(radius)) /\ UNCHANGED importSettled
  \/ mapRadius <= MaxRadius /\ initializeMap /\ UNCHANGED importSettled
  \/ (\E i \in DOMAIN hexMap, sel \in HexSelections :
       /\ hexEdits < MaxHexEdits
       /\ <<hexMap[i].q, hexMap[i].r>> \in HexTargets
       /\ handleHexClick(i, sel[1], sel[2], sel[3], sel[4])) /\ UNCHANGED importSettled
  \/ (\E doc \in ImportDocs : importFromJSON(doc)) /\ UNCHANGED importSettled
  \/ \E doc \in RectDocs : ImportMapFile(doc)

NextImport == ImportStep /\ UNCHANGED <<rectVars, rt, strokes, latest, genMap, picked, terrainRuns, store, selectedBrush, noiseRun, buttonHeld>>

SpecImport == Init /\ [][NextImport]_vars

\* generateRandomTerrain called MaxTerrainRuns times on a 3x3 map, with a
\* typed seed or none, two settings of the mountains and water sliders and
\* several outcomes of Math.random.
TerrainSize == [width |-> 3, height |-> 3]

TerrainParams ==
  [randomSeed : {0, 7}, terrainScale : {1}, mountainsLevel : {1, 3}, waterLevel : {1, 2}]

RandomStreams == {<<0>>, <<9>>, <<3, 8, 5>>, <<6, 1>>}

NextTerrain ==
  \E params \in TerrainParams, rnd \in RandomStreams :
    Len(terrainRuns) < MaxTerrainRuns /\ GenerateRandomTerrain(TerrainSize, params, rnd)

SpecTerrain == Init /\ [][NextTerrain]_vars

\* One call of generateRandomTerrain on a 3x3 or a 4x4 map, over the ends of
\* the sliders of the dialog, typed seeds or none, and several outcomes of
\* Math.random.
RiverSizes == {TerrainSize, [width |-> 4, height |-> 4]}

RiverParams ==
  [randomSeed : {0, 7, 3}, terrainScale : {1, 2}, mountainsLevel : {1, 10}, waterLevel : {1, 3}]

NextRiver ==
  \E size \in RiverSizes, params \in RiverParams, rnd \in RandomStreams :
    terrainRuns = << >> /\ GenerateRandomTerrain(size, params, rnd)

SpecRiver == Init /\ [][NextRiver]_vars

\* generateNoise called on fields of one cell, one row and several rows, with
\* the scales generateRandomTerrain uses and ten seeds.
NoiseSizes == {[width |-> 1, height |-> 1], [width |-> 2, height |-> 1],
               [width |-> 2, height |-> 2], TerrainSize}

NoiseScales == {10, 12, 15, 20}

NoiseSeeds == 0..9

NextNoise ==
  \E size \in NoiseSizes, scale \in NoiseScales, seed \in NoiseSeeds :
    GenerateNoise(size, scale, seed)

SpecNoise == Init /\ [][NextNoise]_vars

\* The brush types: a 3x3 map, the height tool and a terrain tool, brushes of
\* size 1 and 3 of either type and strength, at the centre and at a corner.
SoftMapSize == [width |-> 3, height |-> 3]

SoftCentres == {<<1, 1>>, <<0, 0>>}

\* <<selectedTool, selectedHeight>>
SoftTools == {<<"height", 5>>, <<"height", 0>>, <<"water", 0>>}

InitSoft ==
  /\ InitRect(SoftMapSize) /\ InitHex /\ InitImport /\ InitGenerator /\ InitTerrain
  /\ InitStore /\ InitSelectedBrush(SoftStrengths) /\ InitNoise /\ InitButton

SoftStep ==
  \/ CreateMap /\ UNCHANGED selectedBrush
  \/ \E type \in {"normal", "soft"} :
       /\ SelectBrushType(type)
       /\ lastOp' = Op("other")
       /\ UNCHANGED <<step, mapSize, mapData, undoStack, redoStack, keyHandler, isDrawing,
                      isLoading, inWindow, drawTimer, loadTimer, edits>>
  \/ \E strength \in SoftStrengths :
       /\ SetSoftBrushSettings(strength)
       /\ lastOp' = Op("other")
       /\ UNCHANGED <<step, mapSize, mapData, undoStack, redoStack, keyHandler, isDrawing,
                      isLoading, inWindow, drawTimer, loadTimer, edits>>
  \/ \E pos \in SoftCentres, t \in SoftTools, b \in Brushes :
       /\ edits < MaxSoftEdits
       /\ MouseDown(pos[1], pos[2], t[1], t[2], b)
       /\ UNCHANGED selectedBrush
  \/ MouseUp /\ UNCHANGED selectedBrush

NextSoft ==
  SoftStep /\ UNCHANGED <<rt, strokes, latest, hexVars, importSettled, genMap, picked,
                          terrainRuns, store, noiseRun, buttonHeld>>

SpecSoft == InitSoft /\ [][NextSoft]_vars

\* Maps of two shapes: a 3x2 map held cell for cell and a map above
\* VeryLargeMapCells, with the size form reopened between them.
ShapeSizes == {[width |-> 3, height |-> 2], VeryLargeSize}

ShapeStep ==
  \/ \E size \in ShapeSizes : SetMapSize(size)
  \/ CreateMap
  \/ ChangeMapSize
  \/ LoadTimerFire
  \/ \E tool \in Tools : edits < MaxShapeEdits /\ MouseDown(0, 0, tool, 0, 1)
  \/ \E tool \in Tools : edits < MaxShapeEdits /\ MouseOver(0, 1, tool, 0, 3)
  \/ MouseUp
  \/ \E tool \in Tools : edits < MaxShapeEdits /\ FillAll(tool, 0)
  \/ edits < MaxShapeEdits /\ RandomFill
  \/ Undo
  \/ Redo
  \/ CtrlZ
  \/ CtrlY
  \/ WindowElapse
  \/ DrawTimerFire

NextShape ==
  ShapeStep /\ rt' = RtNext
            /\ UNCHANGED <<strokes, latest, hexVars, importSettled, genMap, picked,
                           terrainRuns, store, selectedBrush, noiseRun, buttonHeld>>

SpecShape == Init /\ [][NextShape]_vars

\* The mouse: a map the DOM grid shows and one the canvas shows, the button
\* pressed on a cell and released on the map or outside it, the pointer over
\* a cell with the button up or down.
MouseSizes == {DEFAULT_MAP_SIZE, LargeSize}

InitMouse ==
  /\ (\E size \in MouseSizes : InitRect(size)) /\ InitHex /\ InitImport /\ InitGenerator
  /\ InitTerrain /\ InitStore /\ InitSelectedBrush({10}) /\ InitNoise /\ InitButton

MouseStep ==
  \/ CreateMap /\ UNCHANGED buttonHeld
  \/ LoadTimerFire /\ UNCHANGED buttonHeld
  \/ \E pos \in Positions(mapSize), tool \in Tools :
       edits < MaxMouseEdits /\ PressOnCell(pos[1], pos[2], tool, 0, 1)
  \/ \E pos \in Positions(mapSize), tool \in Tools :
       edits < MaxMouseEdits /\ Hover(pos[1], pos[2], tool, 0, 1)
  \/ ReleaseOnMap
  \/ ReleaseOutside

NextMouse ==
  MouseStep /\ UNCHANGED <<rt, strokes, latest, hexVars, importSettled, genMap, picked,
                           terrainRuns, store, selectedBrush, noiseRun>>

SpecMouse == InitMouse /\ [][NextMouse]_vars

\* The Cell objects: a map on either side of VeryLargeMapCells, brush
\* updates, fills and generations on the cells the model holds, undo and redo.
StoreSizes == {[width |-> 2, height |-> 2], VeryLargeSize}

StoreStep ==
  \/ \E size \in StoreSizes : StoreCreateMap(size)
  \/ \E pos \in Positions(store.mapSize), tool \in Tools, b \in Brushes :
       store.edits < MaxStoreEdits /\ StoreUpdateCell(pos[1], pos[2], tool, 0, b)
  \/ \E tool \in Tools : store.edits < MaxStoreEdits /\ StoreFillAll(tool, 0)
  \/ store.edits < MaxStoreEdits /\ StoreRandomFill
  \/ StoreUndo
  \/ StoreRedo

NextStore ==
  StoreStep /\ UNCHANGED <<rectVars, rt, strokes, latest, hexVars, importSettled, genMap,
                           picked, terrainRuns, selectedBrush, noiseRun, buttonHeld>>

SpecStore == Init /\ [][NextStore]_vars

\* The throttle: a map above VeryLargeMapCells cells, strokes of the
\* one-cell water and height brushes over the cells the model holds, the
\* 50 ms window and the throttle timer, fills and generations with their
\* 100 ms timer.  Requests the throttle drops do not count as edits.
InitThrottle == InitRect(VeryLargeSize) /\ InitHex /\ InitImport /\ InitGenerator /\ InitTerrain /\ InitStore /\ InitSelectedBrush({10}) /\ InitNoise /\ InitButton

SameRequest(a, b) ==
  <<a.row, a.col, a.tool, a.height, a.brush>> = <<b.row, b.col, b.tool, b.height, b.brush>>

\* latest after a brush request: nothing is waiting when the request was
\* applied at once, the request is waiting otherwise
LatestAfter(row, col, tool) ==
  IF lastOp'.op = "brush" THEN NoRequest ELSE BrushOp("request", row, col, tool, 0, 1)

ThrottleStep ==
  \/ CreateMap /\ UNCHANGED latest
  \/ LoadTimerFire /\ UNCHANGED latest
  \/ \E pos \in Positions(mapSize), tool \in Tools :
       /\ edits < MaxThrottleEdits
       /\ MouseDown(pos[1], pos[2], tool, 0, 1)
       /\ latest' = LatestAfter(pos[1], pos[2], tool)
  \/ \E pos \in Positions(mapSize), tool \in Tools :
       /\ isDrawing
       /\ edits < MaxThrottleEdits \/ (inWindow /\ drawTimer # NoTimer)
       /\ MouseOver(pos[1], pos[2], tool, 0, 1)
       /\ latest' = LatestAfter(pos[1], pos[2], tool)
  \/ MouseUp /\ UNCHANGED latest
  \/ (\E tool \in Tools : edits < MaxThrottleEdits /\ FillAll(tool, 0)) /\ UNCHANGED latest
  \/ edits < MaxThrottleEdits /\ RandomFill /\ UNCHANGED latest
  \/ WindowElapse /\ UNCHANGED latest
  \/ DrawTimerFire /\ latest' = IF SameRequest(lastOp', latest) THEN NoRequest ELSE latest

NextThrottle ==
  ThrottleStep /\ rt' = RtNext /\ UNCHANGED <<strokes, hexVars, importSettled, genMap, picked, terrainRuns, store, selectedBrush, noiseRun, buttonHeld>>

SpecThrottle == InitThrottle /\ [][NextThrottle]_vars

\* Cube coordinates: the hex editor with one click, the files, the
\* TerrainGenerator methods on chosen outcomes of the random source and the
\* noise, and screenToHex on the fractional coordinates of a grid of points.
GenMethods == {"random", "procedural", "island", "biomes"}

\* terrain ids decided for the 7 hexes of radius 1, in loop order (the centre
\* is the 4th), and for the first hexes of radius 2 (the rest are fields)
GenPicks ==
  {<<"water", "water", "water", "field", "field", "field", "field">>,
   <<"field", "hills", "forest", "mountains", "swamp", "buildings", "field">>,
   <<"swamp", "swamp", "field", "field", "field", "water", "lava">>}

GenPick(radius, p) ==
  [k \in 1..Len(HexCoords(radius)) |-> IF k <= Len(p) THEN p[k] ELSE "field"]

\* streams of the random source, in tenths
RngStreams == {<<9>>, <<0>>, <<6, 2>>}

ScreenPoints == (-MaxScreen)..MaxScreen

CubeStep ==
  \/ (\E radius \in HexRadii : setMapRadius(radius))
  \/ mapRadius <= MaxRadius /\ initializeMap
  \/ ResizeTimerFire
  \/ mapRadius < MaxRadius /\ increaseRadius
  \/ decreaseRadius
  \/ \E i \in DOMAIN hexMap, sel \in HexSelections :
       /\ hexEdits < MaxCubeEdits
       /\ <<hexMap[i].q, hexMap[i].r>> \in HexTargets
       /\ handleHexClick(i, sel[1], sel[2], sel[3], sel[4])
  \/ \E doc \in ImportDocs : importFromJSON(doc)
  \/ restoreDeletedHexes
  \/ ShowSizeInput

\* GenerateTerrain and ScreenToHex read nothing of the editor's state: their
\* arguments are drawn while the editor has not acted yet, and the editor
\* then runs with their results in place.
NextCube ==
  \/ CubeStep /\ UNCHANGED <<rectVars, rt, strokes, latest, importSettled, genMap, picked, terrainRuns, store, selectedBrush, noiseRun, buttonHeld>>
  \/ \E method \in GenMethods, radius \in HexRadii, p \in GenPicks, rnd \in RngStreams :
       hexOp = "none" /\ GenerateTerrain(method, radius, GenPick(radius, p), rnd)
  \/ \E qn \in ScreenPoints, rn \in ScreenPoints :
       hexOp = "none" /\ ScreenToHex(qn, rn)

SpecCube == Init /\ [][NextCube]_vars

\* The radius cap: radii around MaxHexRadius typed into the size form,
\* resizes at the cap, and files whose mapRadius is at and above the cap.
CapRadii == {1, MaxHexRadius - 1, MaxHexRadius + 1}

CapDocs ==
  {[kind |-> "ok", mapRadius |-> MaxHexRadius, hexes |-> <<HexEntry(0, 0, "water", NoUnit)>>],
   [kind |-> "ok", mapRadius |-> MaxHexRadius + 1,
    hexes |-> <<HexEntry(MaxHexRadius + 1, 0, "water", NoUnit)>>]}

CapStep ==
  \/ \E radius \in CapRadii : setMapRadius(radius)
  \/ initializeMap
  \/ ResizeTimerFire
  \/ increaseRadius
  \/ mapRadius >= MaxHexRadius /\ decreaseRadius
  \/ \E doc \in CapDocs : importFromJSON(doc)
  \/ ShowSizeInput

NextCap == CapStep /\ UNCHANGED <<rectVars, rt, strokes, latest, importSettled, genMap, picked, terrainRuns, store, selectedBrush, noiseRun, buttonHeld>>

SpecCap == Init /\ [][NextCap]_vars

\* The grid of the hex editor: the size form, resizes, clicks, restores,
\* files and "start over".
GridStep ==
  \/ \E radius \in HexRadii : setMapRadius(radius)
  \/ mapRadius <= MaxRadius /\ initializeMap
  \/ ResizeTimerFire
  \/ mapRadius < MaxRadius /\ increaseRadius
  \/ decreaseRadius
  \/ \E i \in DOMAIN hexMap, sel \in HexSelections :
       /\ hexEdits < MaxGridEdits
       /\ <<hexMap[i].q, hexMap[i].r>> \in HexTargets
       /\ handleHexClick(i, sel[1], sel[2], sel[3], sel[4])
  \/ \E doc \in ImportDocs : importFromJSON(doc)
  \/ restoreDeletedHexes
  \/ ShowSizeInput
  \/ StartOver

NextGrid == GridStep /\ UNCHANGED <<rectVars, rt, strokes, latest, importSettled, genMap, picked, terrainRuns, store, selectedBrush, noiseRun, buttonHeld>>

SpecGrid == Init /\ [][NextGrid]_vars

\* ------------------------------------------------------------------ claims
\* the undo capacity the documentation gives for a grid size
DocumentedCapacity(size) ==
  IF size.width * size.height <= 10000 THEN 50
  ELSE IF size.width * size.height <= 40000 THEN 20
  ELSE 10

\* the newest k entries of a stack, in their order
Newest(stack, k) == SubSeq(stack, Len(stack) - k + 1, Len(stack))

\* C1: starting from an empty history, after N recorded edits (N within the
\* undo capacity) N undos leave the grid that existed before the first edit,
\* and N further redos leave the grid that existed after the N-th edit.
C1_UndoRedoRoundTrip ==
  /\ (rt.phase = "undos" /\ rt.k = rt.n /\ rt.n <= DocumentedCapacity(mapSize))
        => mapData = rt.first
  /\ (rt.phase = "redos" /\ rt.k = rt.n /\ rt.n <= DocumentedCapacity(mapSize))
        => mapData = rt.last

C1_Witness ==
  /\ rt.phase = "redos" /\ rt.k = rt.n /\ rt.n >= 2
  /\ rt.first # rt.last
  /\ mapData = rt.last

\* C2: a recorded edit that follows one or more undos leaves the redo stack
\* empty, and a redo issued after it changes neither the grid nor a stack.
C2_BranchInvalidation ==
  /\ rt.phase = "branched" => redoStack = << >>
  /\ rt.phase = "branchedRedo" =>
        /\ mapData = rt.last
        /\ undoStack = rt.undoAt
        /\ redoStack = << >>

C2_Witness == rt.phase = "branchedRedo" /\ lastOp.op = "redo" /\ rt.k >= 1

\* C3: every committed brush update, fill and generation pushes the grid that
\* was current immediately before it as the newest undo entry (one entry per
\* commit, before truncation to the capacity), empties the redo stack and
\* makes the new grid current.
C3_RecordSemantics ==
  [][lastOp'.op \in CommitOps =>
       LET pushed == Append(undoStack, mapData)
       IN  /\ undoStack' = Newest(pushed, Min(Len(pushed), DocumentedCapacity(mapSize)))
           /\ redoStack' = << >>]_vars

\* C4: undo on an empty undo stack changes nothing, otherwise the newest undo
\* entry becomes current and the former current grid the newest redo entry;
\* redo mirrors it.
C4_UndoRedoStep ==
  [][/\ lastOp'.op = "undo" =>
          IF undoStack = << >>
            THEN <<mapData', undoStack', redoStack'>> = <<mapData, undoStack, redoStack>>
            ELSE /\ mapData' = Last(undoStack)
                 /\ undoStack' = Front(undoStack)
                 /\ redoStack' = Append(redoStack, mapData)
     /\ lastOp'.op = "redo" =>
          IF redoStack = << >>
            THEN <<mapData', undoStack', redoStack'>> = <<mapData, undoStack, redoStack>>
            ELSE /\ mapData' = Last(redoStack)
                 /\ redoStack' = Front(redoStack)
                 /\ undoStack' = Append(undoStack, mapData)]_vars

C4_Witness ==
  /\ lastOp.op = "redo"
  /\ Len(undoStack) >= 1 /\ Len(redoStack) >= 1
  /\ Last(undoStack) # mapData

\* the history a committed edit read: the current one, or the one its timer kept
CommitBase(op) ==
  IF op = "brushTimer" THEN Append(drawTimer.undoStack, drawTimer.mapData)
  ELSE IF op \in {"fillTimer", "genTimer"} THEN Append(loadTimer.undoStack, loadTimer.mapData)
  ELSE Append(undoStack, mapData)

\* C5: after a recorded edit the undo stack holds at most 50 / 20 / 10
\* entries by grid size; on overflow the oldest entries go and the newest
\* stay in their order.
C5_CapacityTiers ==
  [][lastOp'.op \in CommitOps =>
       LET pushed == CommitBase(lastOp'.op)
           cap == DocumentedCapacity(mapSize)
       IN  /\ Len(undoStack') <= cap
           /\ undoStack' = Newest(pushed, Min(Len(pushed), cap))]_vars

C5_Witness ==
  /\ lastOp.op \in CommitOps
  /\ mapSize = DEFAULT_MAP_SIZE
  /\ Len(undoStack) = 50
  /\ edits >= 52
  /\ undoStack[1] # undoStack[50]

\* C6: in edit mode Ctrl+Z leaves the grid and stacks that a click on Undo
\* would leave at that moment, and Ctrl+Y those of a click on Redo.
C6_KeyboardHistory ==
  MouseReaches =>
    /\ undo(keyHandler, History) = undo(History, History)
    /\ redo(keyHandler, History) = redo(History, History)


\* a cell painted by a hard brush or a fill: the height tool sets the height
\* and keeps the type, a terrain tool sets the type and keeps the height
Painted(cell, tool, height) ==
  IF tool = "height"
    THEN [type |-> cell.type, height |-> height]
    ELSE [type |-> tool, height |-> cell.height]

SameShape(g1, g2) ==
  /\ DOMAIN g1 = DOMAIN g2
  /\ \A i \in DOMAIN g1 : DOMAIN g1[i] = DOMAIN g2[i]

\* the square of the Euclidean distance of cell (i, j) (1-based) from the
\* brush centre (row, col) (0-based)
Dist2(i, j, row, col) == (i - 1 - row) * (i - 1 - row) + (j - 1 - col) * (j - 1 - col)

\* C7: a hard brush of size B leaves every cell farther than floor(B/2) from
\* the centre unchanged; for B > 1 it paints exactly the cells of the map
\* within that distance, for B = 1 exactly the centre cell.
C7_BrushContainment ==
  [][lastOp'.op = "brush" =>
       LET a == lastOp'
           radius == a.brush \div 2
       IN  /\ SameShape(mapData, mapData')
           /\ \A i \in DOMAIN mapData : \A j \in DOMAIN mapData[i] :
                LET inBrush == IF a.brush > 1
                                 THEN Dist2(i, j, a.row, a.col) <= radius * radius
                                 ELSE i - 1 = a.row /\ j - 1 = a.col
                IN  mapData'[i][j] = IF inBrush
                                       THEN Painted(mapData[i][j], a.tool, a.height)
                                       ELSE mapData[i][j]]_vars

\* a size 5 water stroke at the centre of the 5x5 map: the cell two steps
\* away on the axis is painted, the corner is not
C7_Witness ==
  /\ lastOp = BrushOp("brush", 2, 2, "water", 0, 5)
  /\ Len(strokes) = 1
  /\ mapData[1][3].type = "water"
  /\ mapData[1][1] = DefaultCell
  /\ mapData[2][2].type = "water"

\* the scenario of C8: a 5x5 map of field / height 1, then one hard brush
\* stroke of size 3 at (2,2) with the water tool selected and height 0 selected
C8_Scenario ==
  /\ mapSize = [width |-> 5, height |-> 5]
  /\ strokes = <<BrushOp("brush", 2, 2, "water", 0, 3)>>
  /\ Len(undoStack) = 1
  /\ undoStack[1] = [i \in 1..5 |-> [j \in 1..5 |-> [type |-> "field", height |-> 1]]]

WaterZero == [type |-> "water", height |-> 0]

WaterOne == [type |-> "water", height |-> 1]

\* C8 as claimed: the 9 cells of the 3x3 block around (2,2) are water with
\* height 0 and the 16 perimeter cells are unchanged.
C8_AsClaimed ==
  C8_Scenario =>
    \A i \in 1..5, j \in 1..5 :
      mapData[i][j] = IF i \in 2..4 /\ j \in 2..4 THEN WaterZero ELSE DefaultCell

\* C8 amended: the centre and its 4 orthogonal neighbours are water and keep
\* height 1; the 4 diagonal neighbours and the 16 perimeter cells are unchanged.
C8_PlusShape ==
  C8_Scenario =>
    \A i \in 1..5, j \in 1..5 :
      mapData[i][j] = IF (i = 3 /\ j \in 2..4) \/ (j = 3 /\ i \in 2..4)
                        THEN WaterOne ELSE DefaultCell

C8_Witness == C8_Scenario /\ mapData[3][3] = WaterOne /\ lastOp.op = "brush"

\* C9: a fill with the height tool gives every cell the selected height and
\* keeps its type, a fill with a terrain tool gives every cell that type and
\* keeps its height; the dimensions stay.
C9_FillTotality ==
  [][lastOp'.op = "fill" =>
       /\ SameShape(mapData, mapData')
       /\ Len(mapData') = mapSize.height
       /\ \A i \in DOMAIN mapData' :
            /\ Len(mapData'[i]) = mapSize.width
            /\ \A j \in DOMAIN mapData'[i] :
                 mapData'[i][j] = Painted(mapData[i][j], lastOp'.tool, lastOp'.height)]_vars

\* a height fill of a map on which a water stroke left two kinds of cell
C9_Witness ==
  /\ Len(strokes) = 2
  /\ strokes[1].op = "brush" /\ strokes[1].tool = "water" /\ strokes[1].brush = 3
  /\ lastOp = BrushOp("fill", -1, -1, "height", 2, -1)
  /\ \E i \in DOMAIN mapData : \E j \in DOMAIN mapData[i] : mapData[i][j].type = "water"
  /\ \E i \in DOMAIN mapData : \E j \in DOMAIN mapData[i] : mapData[i][j].type = "field"
  /\ \A i \in DOMAIN mapData : \A j \in DOMAIN mapData[i] : mapData[i][j].height = 2

\* the hex of a map at a coordinate, as terrain type and unit type
HexAt(hexes, c) ==
  LET i == LastIndex(hexes, c[1], c[2], -c[1] - c[2])
  IN  IF i = 0 THEN [terrainType |-> "absent", unit |-> NoUnit]
      ELSE [terrainType |-> hexes[i].terrainType, unit |-> hexes[i].unit]

\* C10: importing the document that exportToJSON produced gives the radius
\* of the exported map and, at every coordinate, its terrain type ('empty'
\* included) and its unit type where a unit was present.
C10_HexRoundTrip ==
  (hexOp = "import" /\ exported.mapRadius > 0) =>
    /\ mapRadius = exported.mapRadius
    /\ \A c \in HexCoordSet(exported.mapRadius) :
         /\ HexAt(hexMap, c).terrainType = HexAt(exported.hexMap, c).terrainType
         /\ HexAt(exported.hexMap, c).unit # NoUnit =>
              HexAt(hexMap, c).unit = HexAt(exported.hexMap, c).unit

\* a hex file that does not parse or lacks the hexes array or the mapRadius
HexFileMalformed(doc) == doc.kind # "ok" \/ doc.mapRadius = 0

\* a map file that does not parse or lacks width, height or data
RectFileMalformed(doc) == doc.kind # "ok" \/ doc.width = 0 \/ doc.height = 0 \/ ~doc.hasData

\* C11: a file that does not parse or lacks a required field makes the hex
\* importer fail and importMapFromJSON reject without a map; a failed hex
\* import leaves the map, radius, hex count and every other editor state as
\* they were, and importMapFromJSON never changes editor state.
C11_MalformedImportAtomic ==
  /\ \A doc \in ImportDocs : HexFileMalformed(doc) => ImportThrows(doc)
  /\ \A doc \in RectDocs :
       RectFileMalformed(doc) =>
         /\ importMapFromJSON(doc).state = "rejected"
         /\ "mapData" \notin DOMAIN importMapFromJSON(doc)
  /\ [][/\ hexOp' = "importFailed" =>
             UNCHANGED <<mapRadius, hexMap, hexCount, showSizeInput, deletedHexes,
                         resizeTimer, rectVars>>
        /\ importSettled' # importSettled => UNCHANGED <<rectVars, hexVars>>]_vars

\* a failed import of a file that breaks inside the loop, on an edited map of
\* another radius, and a rejected map file
C11_Witness ==
  /\ hexOp = "importFailed"
  /\ mapRadius = 2
  /\ hexEdits > 0
  /\ \E i \in DOMAIN hexMap : hexMap[i].terrainType = "water"
  /\ importSettled.state = "rejected"

CubeSum(h) == h.q + h.r + h.s

\* C12: every hex of the editor's map, every hex the editor keeps for a
\* restore or a pending resize, every hex of a map a TerrainGenerator method
\* returned and the coordinate screenToHex returned satisfy q + r + s = 0.
C12_CubeCoordinates ==
  /\ \A i \in DOMAIN hexMap : CubeSum(hexMap[i]) = 0
  /\ \A i \in DOMAIN deletedHexes : CubeSum(deletedHexes[i]) = 0
  /\ \A i \in DOMAIN genMap : CubeSum(genMap[i]) = 0
  /\ CubeSum(picked) = 0

\* a post-processed generated map, a point whose rounding had to be
\* corrected, and an imported map, all at once
C12_Witness ==
  /\ hexOp = "importFile"
  /\ Len(hexMap) = 7
  /\ Len(genMap) = 7
  /\ \E i \in DOMAIN genMap : genMap[i].terrainType = "swamp" /\ genMap[i].q = 0 /\ genMap[i].r = 0
  /\ \E qn \in ScreenPoints, rn \in ScreenPoints :
       /\ RoundFraction(qn) + RoundFraction(rn) + RoundFraction(-qn - rn) # 0
       /\ picked = screenToHex(qn, rn)
       /\ picked.q # 0

\* map has exactly one entry for each cube coordinate within radius, no others
CompleteGrid(map, radius) ==
  /\ Len(map) = 3 * radius * (radius + 1) + 1
  /\ \A c \in HexCoordSet(radius) :
       Cardinality({i \in DOMAIN map : SameHex(map[i], c[1], c[2], -c[1] - c[2])}) = 1

\* C13 as stated: whenever a hex map exists it is the complete grid of the
\* current mapRadius.
C13_AsClaimed == Len(hexMap) > 0 => CompleteGrid(hexMap, mapRadius)

\* C13, amended: while the editor is shown the map is the complete grid of
\* mapRadius; in the size form, where mapRadius holds the typed radius, the
\* map is still the complete grid of some radius; a click never changes the
\* number of entries, a delete leaves an 'empty' entry in place.
C13_GridComplete ==
  /\ []((Len(hexMap) > 0 /\ ~showSizeInput) => CompleteGrid(hexMap, mapRadius))
  /\ [](Len(hexMap) > 0 => \E radius \in 1..Len(hexMap) : CompleteGrid(hexMap, radius))
  /\ [][hexOp' = "click" => Len(hexMap') = Len(hexMap)]_vars

\* a map of radius 2 right after a delete
C13_Witness ==
  /\ hexOp = "click"
  /\ ~showSizeInput
  /\ mapRadius = 2
  /\ Len(hexMap) = 19
  /\ Len(deletedHexes) = 1
  /\ \E i \in DOMAIN hexMap : hexMap[i].terrainType = "empty"

HexCell(terrainType, unit) == [terrainType |-> terrainType, unit |-> unit]

WithinRadius(h, radius) ==
  /\ h.q >= -radius /\ h.q <= radius
  /\ h.r >= -radius /\ h.r <= radius
  /\ h.s >= -radius /\ h.s <= radius

\* C16: no map the editor holds has a hex beyond radius 15, and the radius
\* of a shown map is at most 15.
C16_RadiusCap ==
  /\ \A i \in DOMAIN hexMap : WithinRadius(hexMap[i], MaxHexRadius)
  /\ (~showSizeInput /\ Len(hexMap) > 0) => mapRadius <= MaxHexRadius

\* C17: the request the throttle timer applies is the newest request
\* received in the window, and when no timer is pending no request is left
\* unapplied.
C17_ThrottleKeepsLatest ==
  /\ [][lastOp'.op = "brushTimer" => SameRequest(lastOp', latest)]_vars
  /\ [](drawTimer = NoTimer => latest = NoRequest)

\* C18: the commit of a deferred fill or generation is the commit the
\* synchronous branch would make from the grid and the history current at
\* commit time, so nothing committed since the request is missing.
C18_YieldKeepsResults ==
  [][/\ lastOp'.op = "fillTimer" =>
          saveState(mapSize, undoStack, mapData,
                    fillMap(mapData, mapSize, loadTimer.tool, loadTimer.height))
     /\ lastOp'.op = "genTimer" =>
          \E g \in GenOutputs(mapSize) : saveState(mapSize, undoStack, mapData, g)]_vars

\* C19: two calls of generateRandomTerrain with the same map size and the
\* same parameters, the seed not 0, return the same map.
C19_SeedReproducible ==
  \A i \in DOMAIN terrainRuns, j \in DOMAIN terrainRuns :
    (/\ terrainRuns[i].mapSize = terrainRuns[j].mapSize
     /\ terrainRuns[i].params = terrainRuns[j].params
     /\ terrainRuns[i].params.randomSeed # 0) =>
      terrainRuns[i].map = terrainRuns[j].map

\* C20: every grid held in the undo or the redo stack has, cell for cell,
\* the cells it had when it was pushed, on maps of either copy strategy.
C20_SnapshotsImmutable ==
  /\ \A i \in DOMAIN store.undoStack :
       Deref(store.cells, store.undoStack[i].grid) = store.undoStack[i].pushed
  /\ \A i \in DOMAIN store.redoStack :
       Deref(store.cells, store.redoStack[i].grid) = store.redoStack[i].pushed

\* a very large map after three edits, an undo and a redo: two grids in the
\* undo stack and one in the redo stack, which differ from their neighbours
C20_Witness ==
  /\ isVeryLargeMap(store.mapSize)
  /\ store.edits = 3
  /\ Len(store.undoStack) = 2
  /\ Len(store.redoStack) = 1
  /\ store.undoStack[1].pushed # store.undoStack[2].pushed
  /\ store.redoStack[1].pushed # store.undoStack[2].pushed
  /\ Deref(store.cells, store.mapData) # store.undoStack[2].pushed

\* round(current + (target - current) * weight) for a weight of
\* strengthTenths / 10: Math.round rounds halves up
BlendHeight(current, target, strengthTenths) ==
  (2 * (10 * current + (target - current) * strengthTenths) + 10) \div 20

\* the height a soft brush of size 1 or 3 gives a cell it reaches: at the
\* centre the weight is the strength; at distance 1 = radius every falloff
\* gives a weight the rounding (or the 0.01 threshold) takes to no change
SoftHeight(current, target, atCentre, strengthTenths) ==
  IF atCentre THEN BlendHeight(current, target, strengthTenths) ELSE current

\* C21: a stroke of the height tool with the soft brush gives each cell it
\* reaches round(current + (target - current) * weight), so the centre moves
\* by the strength and a cell at the edge moves less; with the normal brush
\* the height is the target.
C21_SoftBrushBlends ==
  [][(lastOp'.op = "brush" /\ lastOp'.tool = "height") =>
       \A i \in DOMAIN mapData : \A j \in DOMAIN mapData[i] :
         BrushHits(lastOp'.row, lastOp'.col, mapSize, lastOp'.brush, i - 1, j - 1) =>
           mapData'[i][j].height =
             IF selectedBrush.type = "soft"
               THEN SoftHeight(mapData[i][j].height, lastOp'.height,
                               i - 1 = lastOp'.row /\ j - 1 = lastOp'.col,
                               selectedBrush.strength)
               ELSE lastOp'.height]_vars

\* grid has the rows and columns the model holds of a map of size
DenseShape(grid, size) ==
  /\ Len(grid) = Tracked(size.height)
  /\ \A r \in DOMAIN grid : Len(grid[r]) = Tracked(size.width)

\* C22: in edit mode the current grid and every snapshot of the undo and the
\* redo stack have mapSize.height rows of mapSize.width cells, and a map that
\* was just created has only cells of type field and height 1.
C22_DenseGridShape ==
  step = "edit" =>
    /\ DenseShape(mapData, mapSize)
    /\ \A i \in DOMAIN undoStack : DenseShape(undoStack[i], mapSize)
    /\ \A i \in DOMAIN redoStack : DenseShape(redoStack[i], mapSize)
    /\ lastOp.op = "createMap" =>
         \A r \in DOMAIN mapData : \A c \in DOMAIN mapData[r] : mapData[r][c] = DefaultCell

\* the height noise at cell p = <<x, y>> of run
ElevationAt(run, p) == run.heightMap[p[2]][p[1]]

\* the cells around p inside the map of run
NeighboursOf(run, p) ==
  {<<p[1] + Directions[d][1], p[2] + Directions[d][2]>> : d \in DOMAIN Directions}
    \cap ((0..(run.mapSize.width - 1)) \X (0..(run.mapSize.height - 1)))

\* C23: a river moves only to a neighbour strictly lower than the cell it is
\* on, and a river whose source has no lower neighbour is the source alone.
C23_RiverStopsAtMinimum ==
  \A k \in DOMAIN terrainRuns :
    \A w \in DOMAIN terrainRuns[k].rivers.walks :
      LET run == terrainRuns[k]
          walk == run.rivers.walks[w]
      IN  /\ \A i \in 1..(Len(walk) - 1) :
               ElevationAt(run, walk[i + 1]) < ElevationAt(run, walk[i])
          /\ (\A p \in NeighboursOf(run, walk[1]) :
                ElevationAt(run, p) >= ElevationAt(run, walk[1])) => Len(walk) = 1

\* a cell the smoothing pass may change
Smoothable(cell) == cell.type # "water" /\ cell.type # "asphalt"

\* row r, column c of a map of size is off the outer border
OffBorder(size, r, c) == r > 1 /\ r < size.height /\ c > 1 /\ c < size.width

\* C24: the smoothing pass changes no terrain type, no cell on the outer
\* border and no cell that is water or asphalt before it.
C24_SmoothingKeepsWaterAndRoads ==
  \A k \in DOMAIN terrainRuns :
    LET pre == terrainRuns[k].rivers.map
        post == terrainRuns[k].map
    IN  \A r \in DOMAIN pre : \A c \in DOMAIN pre[r] :
          /\ post[r][c].type = pre[r][c].type
          /\ (~OffBorder(terrainRuns[k].mapSize, r, c) \/ ~Smoothable(pre[r][c])) =>
               post[r][c] = pre[r][c]

\* a run in which a cell off the border is water or asphalt while another
\* cell off the border is smoothed to a new height
C24_Witness ==
  \E k \in DOMAIN terrainRuns :
    LET pre == terrainRuns[k].rivers.map
        post == terrainRuns[k].map
        inner == {rc \in (DOMAIN pre) \X (DOMAIN pre[1]) :
                    OffBorder(terrainRuns[k].mapSize, rc[1], rc[2])}
    IN  /\ \E rc \in inner : ~Smoothable(pre[rc[1]][rc[2]])
        /\ \E rc \in inner : post[rc[1]][rc[2]].height # pre[rc[1]][rc[2]].height

RECURSIVE SumHeights(_, _)
SumHeights(map, cells) ==
  IF cells = {} THEN 0
  ELSE LET rc == CHOOSE x \in cells : TRUE
       IN  map[rc[1]][rc[2]].height + SumHeights(map, cells \ {rc})

\* the smoothable cells of the 3x3 block around row r, column c of map
EligibleBlock(map, r, c) ==
  {rc \in ((r - 1)..(r + 1)) \X ((c - 1)..(c + 1)) :
     /\ rc[1] \in DOMAIN map /\ rc[2] \in DOMAIN map[1]
     /\ Smoothable(map[rc[1]][rc[2]])}

C26_HeightsInRange ==
  \A k \in DOMAIN terrainRuns :
    \A r \in DOMAIN terrainRuns[k].map : \A c \in DOMAIN terrainRuns[k].map[r] :
      terrainRuns[k].map[r][c].height \in 0..10

\* the accumulated values of a call of generateNoise
RawValues(run) == {run.raw[y][x] : y \in DOMAIN run.raw, x \in DOMAIN run.raw[0]}

\* C27: generateNoise returns 0.5 in every cell when all accumulated values
\* are equal; otherwise every returned value lies in [0, 1], a smallest
\* value is returned as 0 and a largest as 1.
C27_NoiseNormalization ==
  noiseRun # NoNoise =>
    \A y \in DOMAIN noiseRun.raw : \A x \in DOMAIN noiseRun.raw[y] :
      IF Cardinality(RawValues(noiseRun)) = 1
        THEN noiseRun.field[y][x] = 50
        ELSE /\ noiseRun.field[y][x] \in 0..100
             /\ (\A v \in RawValues(noiseRun) : noiseRun.raw[y][x] <= v) =>
                  noiseRun.field[y][x] = 0
             /\ (\A v \in RawValues(noiseRun) : noiseRun.raw[y][x] >= v) =>
                  noiseRun.field[y][x] = 100

\* C28: the undo and the redo stack together hold at most the undo capacity
\* of the grid size, and an undo or a redo that finds an entry moves exactly
\* one entry from one stack to the other.
C28_HistorySizeConserved ==
  /\ [](Len(undoStack) + Len(redoStack) <= maxUndoStates(mapSize))
  /\ [][/\ (lastOp'.op = "undo" /\ Len(undoStack) > 0) =>
             /\ Len(undoStack') = Len(undoStack) - 1
             /\ Len(redoStack') = Len(redoStack) + 1
        /\ (lastOp'.op = "redo" /\ Len(redoStack) > 0) =>
             /\ Len(undoStack') = Len(undoStack) + 1
             /\ Len(redoStack') = Len(redoStack) - 1]_vars

\* a very large map whose history is full, right after a redo, with entries
\* left to redo
C28_Witness ==
  /\ isVeryLargeMap(mapSize)
  /\ lastOp.op = "redo"
  /\ Len(undoStack) + Len(redoStack) = MAX_UNDO_STATES_VERY_LARGE
  /\ Len(redoStack) > 1

\* C29: isDrawing is true only while the button is held, so the pointer
\* coming over a cell while no button is held commits no brush update.
C29_DrawingFollowsButton ==
  /\ [](isDrawing => buttonHeld)
  /\ [][(~buttonHeld /\ ~buttonHeld') => lastOp'.op # "brush"]_vars


\* C30: when the deferred resize commits right after a hex edit that was
\* committed while the resize was pending, the committed map holds, at every
\* coordinate inside the new radius that the edited map holds, the hex of
\* the edited map.
C30_ResizeKeepsEdits ==
  [][(hexOp = "click" /\ hexOp' = "resize") =>
       \A c \in HexCoordSet(mapRadius') :
         HexAt(hexMap, c).terrainType # "absent" =>
           HexAt(hexMap', c) = HexAt(hexMap, c)]_vars

====
